---- MODULE Spec2Model ----
(***************************************************************************)
(* Model of the conversation-text analysis of Fight_app and of the         *)
(* services around it.                                                     *)
(*                                                                         *)
(*   - the live OCRService (parseMessagesFromText, identifyParticipants,  *)
(*     analyzeTone, analyzeSentiment, extractKeyTopics, identifyPatterns, *)
(*     processConversationFromOCR): Spec;                                  *)
(*   - the mock OCRService's structured pass (identifyConversationStructure*)
(*     over cleaned lines): Spec, and its processConversationText:        *)
(*     SpecText;                                                           *)
(*   - calculateOverallConfidence of both OCRServices: SpecConfidence;    *)
(*   - the conversation list of the static StorageService: SpecStorage;   *)
(*   - the read and write paths of both StorageServices: SpecPaths;       *)
(*   - AIService.generateResponseSuggestions: SpecAI;                     *)
(*   - AIService.analyzeConversation: SpecAnalysis;                       *)
(*   - initialize and the calls of both AIServices: SpecInitialization;   *)
(*   - the analysis cache of the static StorageService: SpecCache;        *)
(*   - validateConversationText: SpecTextValidation;                      *)
(*   - validateImageForOCR of both ImagePickerServices:                   *)
(*     SpecImageValidation;                                               *)
(*   - two saveConversation calls in flight at once: SpecConcurrentSaves; *)
(*   - parseMessagesFromText on blank sender parts: SpecSenders;          *)
(*   - the handlers of the ChatScreen: SpecChat, and SpecChatFair, in     *)
(*     which every awaited call completes.                                *)
(*                                                                         *)
(* A JavaScript string is a sequence of one-character strings, so that     *)
(* toLowerCase, includes, split, trim and the regular expressions are      *)
(* computed character by character.  The variables of a service that a     *)
(* specification does not exercise keep their initial values.              *)
(***************************************************************************)
EXTENDS Integers, Sequences, FiniteSets, TLC

VARIABLES
    text,               \* OCRResult.text handed to the services
    conversationData,   \* None, or Some(result of processConversationFromOCR)
    structuredLines,    \* None, or Some(result of identifyConversationStructure)
    processedText,      \* None, or Some(result of processConversationText)
    blocks,             \* result.blocks of the text recognition: list of blocks
    confidenceMLKit,    \* None, or Some(confidence of the ML Kit service's result)
    confidenceMock,     \* None, or Some(confidence of the mock service's result)
    storage,            \* AsyncStorage: key -> None, or Some(stored blob)
    nextId,             \* number of the next conversation handed to a save
    calls,              \* number of StorageService calls made so far
    lastCall,           \* the last StorageService call and its outcome
    clock,              \* new Date().getTime() at the last StorageService call
    openai,             \* AIService.openai: None, or Some(apiKey of the client)
    suggestionsCall,    \* None, or Some(last generateResponseSuggestions call)
    analysisCall,       \* None, or Some(last analyzeConversation call)
    initialized,        \* AIService.initialized of the mock service
    mockCall,           \* None, or Some(last call of the mock AIService)
    initializeCalled,   \* history: has initialize been called, per service
    textValidation,     \* None, or Some(result of validateConversationText)
    image,              \* the ImagePickerResult handed to validateImageForOCR
    imageValidation,    \* result of validateImageForOCR, per ImagePickerService
    saveService,        \* the StorageService two concurrent saves are made on
    savers,             \* the two concurrent saveConversation calls
    route,              \* route.params of the ChatScreen
    conversationState,  \* ChatScreen state conversation: None, or Some(it)
    userProfile,        \* ChatScreen state: None, or Some(profile)
    isTyping,           \* ChatScreen state
    isLoading,          \* ChatScreen state
    handlers,           \* the pending call of each ChatScreen handler
    dateNow,            \* Date.now() of the next message or conversation
    taps,               \* number of presses of the send and image buttons
    added,              \* history: ids of the messages the user has added
    chatFailed          \* history: has a storage, picker, OCR or AI call failed

ocrVars == <<text, conversationData, structuredLines, processedText>>
confidenceVars == <<blocks, confidenceMLKit, confidenceMock>>
storageVars == <<storage, nextId, calls, lastCall, clock>>
aiVars == <<openai, suggestionsCall, analysisCall, initialized, mockCall, initializeCalled>>
validationVars == <<textValidation, image, imageValidation>>
raceVars == <<saveService, savers>>
chatVars == <<route, conversationState, userProfile, isTyping, isLoading, handlers,
              dateNow, taps, added, chatFailed>>
appVars == <<validationVars, raceVars, chatVars>>
vars == <<ocrVars, confidenceVars, storageVars, aiVars, appVars>>

\* An optional value is a sequence of length at most one.
None == <<>>
Some(x) == <<x>>

\* Number of vocabulary pieces a raw text is assembled from.
MaxPieces == 3

\* Number of blocks a text recognition result has at most.
MaxBlocks == 3

\* Number of StorageService calls made in one behaviour.
MaxCalls == 2

\* Number of suggestions a completion of the language model carries at most.
MaxSuggestions == 3

----------------------------------------------------------------------------
(* Characters and the JavaScript string primitives the services use.       *)

UpperCase == <<"A","B","C","D","E","F","G","H","I","J","K","L","M",
               "N","O","P","Q","R","S","T","U","V","W","X","Y","Z">>
LowerCase == <<"a","b","c","d","e","f","g","h","i","j","k","l","m",
               "n","o","p","q","r","s","t","u","v","w","x","y","z">>
Digits    == <<"0","1","2","3","4","5","6","7","8","9">>

IsUpper(c) == \E i \in 1..26 : UpperCase[i] = c
IsLower(c) == \E i \in 1..26 : LowerCase[i] = c
IsLetter(c) == IsUpper(c) \/ IsLower(c)
IsDigit(c) == \E i \in 1..10 : Digits[i] = c
DigitValue(c) == (CHOOSE i \in 1..10 : Digits[i] = c) - 1

\* \s of a JavaScript regular expression and the characters trim() removes
\* (restricted to the white space that occurs in the modelled texts).
IsSpace(c) == c \in {" ", "\t", "\n", "\r"}
\* \w : [A-Za-z0-9_]
IsWordChar(c) == IsLetter(c) \/ IsDigit(c) \/ c = "_"
\* . : anything but a line terminator
IsDot(c) == c \notin {"\n", "\r"}

SetMin(S) == CHOOSE m \in S : \A n \in S : m <= n
SetMax(S) == CHOOSE m \in S : \A n \in S : m >= n

LowerChar(c) == IF IsUpper(c) THEN LowerCase[CHOOSE i \in 1..26 : UpperCase[i] = c] ELSE c

\* String.prototype.toLowerCase
toLowerCase(s) == [i \in 1..Len(s) |-> LowerChar(s[i])]

\* String.prototype.includes
includes(s, w) == \E i \in 0..(Len(s) - Len(w)) : SubSeq(s, i + 1, i + Len(w)) = w

\* String.prototype.trim
trim(s) ==
    LET keep == {i \in 1..Len(s) : ~IsSpace(s[i])}
    IN  IF keep = {} THEN <<>> ELSE SubSeq(s, SetMin(keep), SetMax(keep))

\* String.prototype.split(c) for a one-character separator c
RECURSIVE split(_, _)
split(s, c) ==
    LET at == {i \in 1..Len(s) : s[i] = c}
    IN  IF at = {} THEN <<s>>
        ELSE <<SubSeq(s, 1, SetMin(at) - 1)>> \o split(SubSeq(s, SetMin(at) + 1, Len(s)), c)

\* Array.prototype.join(c) for a one-character separator c
RECURSIVE join(_, _)
join(lines, c) ==
    IF Len(lines) = 0 THEN <<>>
    ELSE IF Len(lines) = 1 THEN lines[1]
    ELSE lines[1] \o <<c>> \o join(Tail(lines), c)

\* Concatenation of a sequence of strings
RECURSIVE Flatten(_)
Flatten(ss) == IF Len(ss) = 0 THEN <<>> ELSE ss[1] \o Flatten(Tail(ss))

\* Number of entries of a word list that occur in s:
\* words.filter(word => s.includes(word)).length
CountIncluded(words, s) == Cardinality({i \in 1..Len(words) : includes(s, words[i])})

----------------------------------------------------------------------------
(* OCRService.parseMessagesFromText and what it calls.                     *)

Unknown == <<"U","n","k","n","o","w","n">>

\* The tail  \s*(.+)$  of both message patterns, matched against rest:
\* the numbers of leading white-space characters \s* may take.
TailSplits(rest) ==
    {k \in 0..(Len(rest) - 1) :
        /\ \A i \in 1..k : IsSpace(rest[i])
        /\ \A i \in (k + 1)..Len(rest) : IsDot(rest[i])}

\* The group (.+) of that tail: \s* is greedy, so it takes the most it can.
TailGroup(rest) == SubSeq(rest, SetMax(TailSplits(rest)) + 1, Len(rest))

\* Length of the longest prefix of line in [A-Za-z\s]
NamePrefixLen(line) ==
    LET other == {i \in 1..Len(line) : ~(IsLetter(line[i]) \/ IsSpace(line[i]))}
    IN  IF other = {} THEN Len(line) ELSE SetMin(other) - 1

\* /^([A-Za-z\s]+):\s*(.+)$/  -- "Name: message"
NameMessageMatch(line) ==
    LET n == NamePrefixLen(line)
        rest == SubSeq(line, n + 2, Len(line))
    IN  IF n >= 1 /\ n < Len(line) /\ line[n + 1] = ":" /\ TailSplits(rest) # {}
        THEN [matched |-> TRUE, g1 |-> SubSeq(line, 1, n), g2 |-> TailGroup(rest)]
        ELSE [matched |-> FALSE, g1 |-> <<>>, g2 |-> <<>>]

\* \d{1,2}:\d{2} with d leading digits, starting at position p of line
TimeAt(line, p, d) ==
    /\ p + d + 2 <= Len(line)
    /\ \A q \in p..(p + d - 1) : IsDigit(line[q])
    /\ line[p + d] = ":"
    /\ IsDigit(line[p + d + 1])
    /\ IsDigit(line[p + d + 2])

\* The ways /^(.+?)\s+(\d{1,2}:\d{2})\s*(.+)$/ can match line: <<i, p, d>>
\* with group 1 = line[1..i], white space line[i+1..p-1], and the time token
\* starting at p with d leading digits.
TimeMessageParses(line) ==
    {t \in (1..Len(line)) \X (1..Len(line)) \X {1, 2} :
        /\ t[2] >= t[1] + 2
        /\ \A q \in 1..t[1] : IsDot(line[q])
        /\ \A q \in (t[1] + 1)..(t[2] - 1) : IsSpace(line[q])
        /\ TimeAt(line, t[2], t[3])
        /\ TailSplits(SubSeq(line, t[2] + t[3] + 3, Len(line))) # {}}

\* The match the backtracking matcher finds first: the lazy group 1 as short
\* as possible, then the greedy \d{1,2} as long as possible.
TimeMessageMatch(line) ==
    LET ps == TimeMessageParses(line)
    IN  IF ps = {} THEN [matched |-> FALSE, g1 |-> <<>>, g2 |-> <<>>]
        ELSE LET i == SetMin({t[1] : t \in ps})
                 p == SetMax({t[2] : t \in {u \in ps : u[1] = i}})
                 d == SetMax({t[3] : t \in {u \in ps : u[1] = i /\ u[2] = p}})
             IN  [matched |-> TRUE, g1 |-> SubSeq(line, 1, i),
                  g2 |-> SubSeq(line, p, p + d + 2)]

SentimentPositiveWords ==
    << <<"l","o","v","e">>, <<"h","a","p","p","y">>, <<"g","r","e","a","t">>,
       <<"g","o","o","d">>, <<"w","o","n","d","e","r","f","u","l">>,
       <<"t","h","a","n","k","s">> >>
SentimentNegativeWords ==
    << <<"h","a","t","e">>, <<"a","n","g","r","y">>, <<"b","a","d">>,
       <<"t","e","r","r","i","b","l","e">>, <<"n","o">>, <<"n","e","v","e","r">> >>

\* A buggy variant of analyzeSentiment: a tie counts as positive.
analyzeSentimentTieMutant(content) ==
    LET lowerText == toLowerCase(content)
        positiveScore == CountIncluded(SentimentPositiveWords, lowerText)
        negativeScore == CountIncluded(SentimentNegativeWords, lowerText)
    IN  IF positiveScore >= negativeScore THEN "positive" ELSE "negative"

analyzeSentiment(content) ==
    LET lowerText == toLowerCase(content)
        positiveScore == CountIncluded(SentimentPositiveWords, lowerText)
        negativeScore == CountIncluded(SentimentNegativeWords, lowerText)
    IN  IF positiveScore > negativeScore THEN "positive"
        ELSE IF negativeScore > positiveScore THEN "negative"
        ELSE "neutral"

\* A buggy variant of Attribution: no pattern ever matches.
AttributionNoMatchMutant(line) == [sender |-> Unknown, content |-> trim(line)]

\* The sender and content the forEach body computes for one line: the first
\* pattern of messagePatterns that matches decides both.
Attribution(line) ==
    LET a == NameMessageMatch(line)
        b == TimeMessageMatch(line)
    IN  IF a.matched THEN [sender |-> trim(a.g1), content |-> trim(a.g2)]
        ELSE IF b.matched THEN [sender |-> trim(b.g1), content |-> trim(b.g2)]
        ELSE [sender |-> Unknown, content |-> trim(line)]

\* text.split('\n').filter(line => line.trim().length > 0)
NonBlankLines(t) == SelectSeq(split(t, "\n"), LAMBDA l : Len(trim(l)) > 0)

\* The messages pushed for lines[k..], k being the 1-based position of the
\* line whose forEach index is k - 1.  The id `msg_${index}` is kept as the
\* index it is formatted from.
RECURSIVE ParseFrom(_, _)
ParseFrom(lines, k) ==
    IF k > Len(lines) THEN <<>>
    ELSE LET at == Attribution(lines[k])
             msg == [id |-> k - 1, sender |-> at.sender, content |-> at.content,
                     sentiment |-> analyzeSentiment(at.content)]
         IN  (IF Len(at.content) > 0 THEN <<msg>> ELSE <<>>) \o ParseFrom(lines, k + 1)

\* A buggy variant of parseMessagesFromText: blank lines are not filtered
\* out and the untrimmed line is the default content.
parseMessagesFromTextBlankMutant(t) ==
    LET lines == split(t, "\n")
    IN  [k \in 1..Len(lines) |->
            [id |-> k - 1, sender |-> Unknown, content |-> lines[k],
             sentiment |-> analyzeSentiment(lines[k])]]

parseMessagesFromText(t) == ParseFrom(NonBlankLines(t), 1)

\* A buggy variant of identifyParticipants: the placeholder is not skipped.
RECURSIVE identifyParticipantsKeepMutant(_)
identifyParticipantsKeepMutant(messages) ==
    IF Len(messages) = 0 THEN <<>>
    ELSE LET before == identifyParticipantsKeepMutant(SubSeq(messages, 1, Len(messages) - 1))
             s == messages[Len(messages)].sender
         IN  IF \E i \in 1..Len(before) : before[i] = s THEN before ELSE Append(before, s)

\* Array.from of the Set the senders other than 'Unknown' are added to:
\* first-seen order, each once.
RECURSIVE identifyParticipants(_)
identifyParticipants(messages) ==
    IF Len(messages) = 0 THEN <<>>
    ELSE LET before == identifyParticipants(SubSeq(messages, 1, Len(messages) - 1))
             s == messages[Len(messages)].sender
         IN  IF s = Unknown \/ (\E i \in 1..Len(before) : before[i] = s)
             THEN before
             ELSE Append(before, s)

----------------------------------------------------------------------------
(* OCRService.extractKeyTopics.                                            *)

\* String.prototype.split(/\s+/)
RECURSIVE splitWhitespace(_)
splitWhitespace(s) ==
    LET at == {i \in 1..Len(s) : IsSpace(s[i])}
    IN  IF at = {} THEN <<s>>
        ELSE LET b == SetMin(at)
                 after == {i \in b..Len(s) : ~IsSpace(s[i])}
                 e == IF after = {} THEN Len(s) + 1 ELSE SetMin(after)
             IN  <<SubSeq(s, 1, b - 1)>> \o splitWhitespace(SubSeq(s, e, Len(s)))

\* A buggy variant of TopicWords: the length filter is missing.
TopicWordsNoFilterMutant(t) ==
    splitWhitespace(SelectSeq(toLowerCase(t), LAMBDA c : IsWordChar(c) \/ IsSpace(c)))

\* text.toLowerCase().replace(/[^\w\s]/g, '').split(/\s+/).filter(word => word.length > 3)
TopicWords(t) ==
    LET stripped == SelectSeq(toLowerCase(t), LAMBDA c : IsWordChar(c) \/ IsSpace(c))
    IN  SelectSeq(splitWhitespace(stripped), LAMBDA w : Len(w) > 3)

\* The distinct entries of a sequence, in order of first occurrence: the
\* order in which wordFreq[word] = ... creates the properties.
RECURSIVE InsertionOrder(_)
InsertionOrder(ws) ==
    IF Len(ws) = 0 THEN <<>>
    ELSE LET before == InsertionOrder(SubSeq(ws, 1, Len(ws) - 1))
             w == ws[Len(ws)]
         IN  IF \E i \in 1..Len(before) : before[i] = w THEN before ELSE Append(before, w)

\* wordFreq[word] after the forEach
Frequency(ws, w) == Cardinality({i \in 1..Len(ws) : ws[i] = w})

\* The largest array index, 2^32 - 2, as a decimal string
MaxArrayIndex == <<"4","2","9","4","9","6","7","2","9","4">>

\* a < b for canonical decimal strings
NumericLess(a, b) ==
    \/ Len(a) < Len(b)
    \/ /\ Len(a) = Len(b)
       /\ \E i \in 1..Len(a) :
            /\ DigitValue(a[i]) < DigitValue(b[i])
            /\ \A j \in 1..(i - 1) : a[j] = b[j]

\* A property key that is an array index (a canonical numeric string up to
\* 2^32 - 2): an object enumerates these keys first, in ascending numeric
\* order, and only then its other string keys in creation order.
IsArrayIndex(w) ==
    /\ Len(w) >= 1
    /\ \A i \in 1..Len(w) : IsDigit(w[i])
    /\ Len(w) = 1 \/ w[1] # "0"
    /\ w = MaxArrayIndex \/ NumericLess(w, MaxArrayIndex)

\* Distinct array-index keys in ascending numeric order
AscendingIndices(s) ==
    [r \in 1..Len(s) |->
        s[CHOOSE i \in 1..Len(s) :
            Cardinality({j \in 1..Len(s) : NumericLess(s[j], s[i])}) = r - 1]]

\* The keys of Object.entries(wordFreq), in enumeration order
ObjectKeys(ws) ==
    LET created == InsertionOrder(ws)
    IN  AscendingIndices(SelectSeq(created, IsArrayIndex))
        \o SelectSeq(created, LAMBDA w : ~IsArrayIndex(w))

\* entries.sort(([,a], [,b]) => b - a): a stable sort, by frequency descending
SortByFrequency(keys, ws) ==
    [r \in 1..Len(keys) |->
        keys[CHOOSE i \in 1..Len(keys) :
            Cardinality({j \in 1..Len(keys) :
                \/ Frequency(ws, keys[j]) > Frequency(ws, keys[i])
                \/ Frequency(ws, keys[j]) = Frequency(ws, keys[i]) /\ j < i}) = r - 1]]

\* A buggy variant of extractKeyTopics: the slice keeps one entry too many.
extractKeyTopicsSliceMutant(t) ==
    LET words == TopicWords(t)
        sorted == SortByFrequency(ObjectKeys(words), words)
    IN  SubSeq(sorted, 1, IF Len(sorted) < 6 THEN Len(sorted) ELSE 6)

extractKeyTopics(t) ==
    LET words == TopicWords(t)
        sorted == SortByFrequency(ObjectKeys(words), words)
    IN  SubSeq(sorted, 1, IF Len(sorted) < 5 THEN Len(sorted) ELSE 5)

----------------------------------------------------------------------------
(* OCRService.identifyPatterns and OCRService.analyzeTone.                 *)

\* A buggy variant of identifyPatterns: the text is not lower-cased.
identifyPatternsCaseMutant(t) ==
    (IF includes(t, <<"?">>) THEN <<"Questions present">> ELSE <<>>)
    \o (IF includes(t, <<"!">>) THEN <<"Emotional expressions">> ELSE <<>>)
    \o (IF \/ includes(t, <<"s","o","r","r","y">>)
           \/ includes(t, <<"a","p","o","l","o","g","i","z","e">>)
        THEN <<"Apologies detected">> ELSE <<>>)
    \o (IF \/ includes(t, <<"b","u","t">>)
           \/ includes(t, <<"h","o","w","e","v","e","r">>)
        THEN <<"Contradictions present">> ELSE <<>>)

identifyPatterns(t) ==
    LET lowerText == toLowerCase(t)
    IN  (IF includes(lowerText, <<"?">>) THEN <<"Questions present">> ELSE <<>>)
        \o (IF includes(lowerText, <<"!">>) THEN <<"Emotional expressions">> ELSE <<>>)
        \o (IF \/ includes(lowerText, <<"s","o","r","r","y">>)
               \/ includes(lowerText, <<"a","p","o","l","o","g","i","z","e">>)
            THEN <<"Apologies detected">> ELSE <<>>)
        \o (IF \/ includes(lowerText, <<"b","u","t">>)
               \/ includes(lowerText, <<"h","o","w","e","v","e","r">>)
            THEN <<"Contradictions present">> ELSE <<>>)

TonePositiveWords ==
    << <<"l","o","v","e">>, <<"h","a","p","p","y">>, <<"g","r","e","a","t">>,
       <<"g","o","o","d">>, <<"w","o","n","d","e","r","f","u","l">>,
       <<"a","m","a","z","i","n","g">> >>
ToneNegativeWords ==
    << <<"h","a","t","e">>, <<"a","n","g","r","y">>, <<"b","a","d">>,
       <<"t","e","r","r","i","b","l","e">>, <<"a","w","f","u","l">>,
       <<"s","t","u","p","i","d">> >>
TensionWords ==
    << <<"b","u","t">>, <<"h","o","w","e","v","e","r">>, <<"w","r","o","n","g">>,
       <<"n","e","v","e","r">>, <<"a","l","w","a","y","s">> >>

positiveCount(t) == CountIncluded(TonePositiveWords, toLowerCase(t))
negativeCount(t) == CountIncluded(ToneNegativeWords, toLowerCase(t))
tensionCount(t) == CountIncluded(TensionWords, toLowerCase(t))

\* A buggy variant of analyzeTone: the first rule compares with >=.
analyzeToneHeatedMutant(t) ==
    LET pos == positiveCount(t)
        neg == negativeCount(t)
        ten == tensionCount(t)
        tone == IF neg >= pos + 2 THEN [overallTone |-> "heated", emotionalIntensity |-> 8]
                ELSE IF ten > 2 \/ neg > pos
                     THEN [overallTone |-> "tense", emotionalIntensity |-> 6]
                ELSE IF pos > neg + 1
                     THEN [overallTone |-> "friendly", emotionalIntensity |-> 3]
                ELSE [overallTone |-> "neutral", emotionalIntensity |-> 5]
    IN  [overallTone |-> tone.overallTone,
         emotionalIntensity |-> tone.emotionalIntensity,
         keyTopics |-> extractKeyTopics(t),
         communicationPatterns |-> identifyPatterns(t)]

analyzeTone(t) ==
    LET pos == positiveCount(t)
        neg == negativeCount(t)
        ten == tensionCount(t)
        tone == IF neg > pos + 2 THEN [overallTone |-> "heated", emotionalIntensity |-> 8]
                ELSE IF ten > 2 \/ neg > pos
                     THEN [overallTone |-> "tense", emotionalIntensity |-> 6]
                ELSE IF pos > neg + 1
                     THEN [overallTone |-> "friendly", emotionalIntensity |-> 3]
                ELSE [overallTone |-> "neutral", emotionalIntensity |-> 5]
    IN  [overallTone |-> tone.overallTone,
         emotionalIntensity |-> tone.emotionalIntensity,
         keyTopics |-> extractKeyTopics(t),
         communicationPatterns |-> identifyPatterns(t)]

----------------------------------------------------------------------------
(* OCRService.processConversationFromOCR.  The generated id, the creation  *)
(* time and the image reference are passed through and not modelled.       *)

processConversationFromOCR(t) ==
    LET messages == parseMessagesFromText(t)
    IN  [messages |-> messages,
         participants |-> identifyParticipants(messages),
         conversationTone |-> analyzeTone(t),
         extractedText |-> t]

----------------------------------------------------------------------------
(* The mock OCRService's structured pass: identifyConversationStructure,   *)
(* applied to the cleaned lines processConversationText hands it.          *)

\* /\d{1,2}\/\d{1,2}/ starting at position p with d leading digits
DayAt(line, p, d) ==
    /\ p + d + 1 <= Len(line)
    /\ \A q \in p..(p + d - 1) : IsDigit(line[q])
    /\ line[p + d] = "/"
    /\ IsDigit(line[p + d + 1])

\* /\d{4}-\d{2}-\d{2}/ starting at position p
DateAt(line, p) ==
    /\ p + 9 <= Len(line)
    /\ \A q \in {p, p + 1, p + 2, p + 3, p + 5, p + 6, p + 8, p + 9} : IsDigit(line[q])
    /\ line[p + 4] = "-"
    /\ line[p + 7] = "-"

\* timePattern.test(line), timePattern = /\d{1,2}:\d{2}|\d{1,2}\/\d{1,2}|\d{4}-\d{2}-\d{2}/
timePatternTest(line) ==
    \E p \in 1..Len(line) :
        \/ \E d \in {1, 2} : TimeAt(line, p, d)
        \/ \E d \in {1, 2} : DayAt(line, p, d)
        \/ DateAt(line, p)

\* line.match(namePattern) is not null, namePattern = /^([A-Za-z\s]+)[:]/
namePatternMatch(line) ==
    LET n == NamePrefixLen(line)
    IN  n >= 1 /\ n < Len(line) /\ line[n + 1] = ":"

\* One iteration of the for loop over lines, on the loop's state
\* [structured, currentMessage] (currentSpeaker is written and never read).
StructureStep(st, line) ==
    IF timePatternTest(line) THEN st
    ELSE IF namePatternMatch(line)
         THEN [structured |-> IF Len(trim(st.currentMessage)) > 0
                              THEN Append(st.structured, trim(st.currentMessage))
                              ELSE st.structured,
               currentMessage |-> line]
    ELSE [structured |-> st.structured,
          currentMessage |-> IF Len(st.currentMessage) > 0
                             THEN st.currentMessage \o <<" ">> \o line
                             ELSE line]

RECURSIVE StructureLoop(_, _)
StructureLoop(st, lines) ==
    IF Len(lines) = 0 THEN st
    ELSE StructureLoop(StructureStep(st, lines[1]), Tail(lines))

identifyConversationStructure(lines) ==
    LET st == StructureLoop([structured |-> <<>>, currentMessage |-> <<>>], lines)
        structured == IF Len(trim(st.currentMessage)) > 0
                      THEN Append(st.structured, trim(st.currentMessage))
                      ELSE st.structured
    IN  IF Len(structured) > 0 THEN structured ELSE lines

\* lines.map(line => line.trim()).filter(line => line.length > 0)
\*      .filter(line => line.length > 2)
CleanedLines(lines) ==
    SelectSeq([i \in 1..Len(lines) |-> trim(lines[i])], LAMBDA l : Len(l) > 0 /\ Len(l) > 2)

\* String.prototype.replace(/\s+/g, ' ')
RECURSIVE collapseWhitespace(_)
collapseWhitespace(s) ==
    LET at == {i \in 1..Len(s) : IsSpace(s[i])}
    IN  IF at = {} THEN s
        ELSE LET b == SetMin(at)
                 after == {i \in b..Len(s) : ~IsSpace(s[i])}
                 e == IF after = {} THEN Len(s) + 1 ELSE SetMin(after)
             IN  SubSeq(s, 1, b - 1) \o <<" ">> \o collapseWhitespace(SubSeq(s, e, Len(s)))

\* String.prototype.replace(/c/g, r) for one-character c and r
replaceChar(s, c, r) == [i \in 1..Len(s) |-> IF s[i] = c THEN r ELSE s[i]]

\* rawText.replace(/\s+/g, ' ').replace(/[|]/g, ' ').replace(/0/g, 'O')
\*        .replace(/1/g, 'I').trim()
CleanArtifacts(rawText) ==
    trim(replaceChar(replaceChar(replaceChar(collapseWhitespace(rawText),
                                             "|", " "), "0", "O"), "1", "I"))

processConversationText(rawText) ==
    IF Len(trim(rawText)) = 0 THEN <<>>
    ELSE join(identifyConversationStructure(
                  CleanedLines(split(CleanArtifacts(rawText), "\n"))), "\n")

----------------------------------------------------------------------------
(* The raw texts the services are applied to: every concatenation of at    *)
(* most MaxPieces pieces of one vocabulary.                                *)

\* Lexicon words of analyzeTone, in both cases and inside longer words
ToneVocabulary ==
    { <<"h","a","t","e"," ">>,   \* hate 
      <<"A","n","g","r","y"," ">>,   \* Angry 
      <<"b","a","d","g","e"," ">>,   \* badge 
      <<"l","o","v","e"," ">>,   \* love 
      <<"G","O","O","D"," ">>,   \* GOOD 
      <<"b","u","t"," ","h","o","w","e","v","e","r"," ","w","r","o","n","g"," ">>,   \* but however wrong 
      <<"n","e","v","e","r"," ">> }   \* never 

\* Speaker prefixes, time tokens, blank lines and sentiment words
MessageVocabulary ==
    { <<"J","o","h","n",":"," ","h","i","\n">>,   \* John: hi\n
      <<"U","n","k","n","o","w","n",":"," ","t","e","x","t","\n">>,   \* Unknown: text\n
      <<"S","a","r","a","h",":">>,   \* Sarah:
      <<" ">>,   \*  
      <<"\n">>,   \* \n
      <<"h","i"," ","3",":","4","5"," ","o","k">>,   \* hi 3:45 ok
      <<"g","o","o","d"," ","g","o","o","d"," ","b","a","d">>,   \* good good bad
      <<"L","o","v","e">>,   \* Love
      <<"n","o">> }   \* no

\* Tokens longer than three characters, numeric tokens, punctuation
TopicVocabulary ==
    { <<"A","l","f","a",","," ","b","e","t","a"," ">>,   \* Alfa, beta 
      <<"g","a","m","a"," ","d","e","l","t"," ">>,   \* gama delt 
      <<"e","c","h","o"," ","k","i","l","o"," ">>,   \* echo kilo 
      <<"2","0","2","4"," ">>,   \* 2024 
      <<"1","9","9","9"," ">>,   \* 1999 
      <<"b","e","t","a"," ">>,   \* beta 
      <<"a","l","f","a"," ">>,   \* alfa 
      <<"0","1","2","3"," ">> }   \* 0123 

\* Speaker lines, continuation lines and lines with time tokens
LineVocabulary ==
    { <<"J","o","h","n",":"," ","h","i","\n">>,   \* John: hi\n
      <<"3",":","4","5","\n">>,   \* 3:45\n
      <<"s","e","e"," ","y","o","u"," ","3",":","4","5","\n">>,   \* see you 3:45\n
      <<"o","k"," ","t","h","e","n","\n">>,   \* ok then\n
      <<"1","2","/","5","\n">>,   \* 12/5\n
      <<"2","0","2","4","-","0","1","-","1","5","\n">>,   \* 2024-01-15\n
      <<"a","n","d"," ","m","o","r","e","\n">>,   \* and more\n
      <<"N","o","t","e",":"," ","r","e","m","e","m","b","e","r"," ","t","h","e"," ","t","i","m","e"," ","3",":","4","5"," ","t","o","m","o","r","r","o","w","\n">> }   \* Note: remember the time 3:45 tomorrow\n

\* Speaker lines, continuation lines, OCR artifacts and short lines
CleanupVocabulary ==
    { <<"J","o","h","n",":"," ","h","i","\n">>,   \* John: hi\n
      <<"S","a","r","a","h",":"," ","o","k","\n">>,   \* Sarah: ok\n
      <<"a","n","d"," ","m","o","r","e","\n">>,   \* and more\n
      <<"a"," ","|"," ","b">>,   \* a | b
      <<"x"," "," ","y","\n">>,   \* x  y\n
      <<"a","b","\n">>,   \* ab\n
      <<"1","0",":","3","0","\n">>,   \* 10:30\n
      <<"|">>,   \* |
      <<"\n">> }   \* \n

\* The two-line scenario of the specification and the triggers of identifyPatterns
PatternVocabulary ==
    { <<"J","o","h","n",":"," ","H","e","y",","," ","h","o","w"," ","a","r","e"," ","y","o","u","?","\n">>,   \* John: Hey, how are you?\n
      <<"S","a","r","a","h",":"," ","I","'","m"," ","g","o","o","d",","," ","t","h","a","n","k","s","!">>,   \* Sarah: I'm good, thanks!
      <<"S","o","r","r","y",","," ","B","U","T"," ">>,   \* Sorry, BUT
      <<"I"," ","a","p","o","l","o","g","i","z","e","."," ">>,   \* I apologize.
      <<"h","o","w","e","v","e","r"," ">>,   \* however
      <<"o","k"," ">>,   \* ok
      <<"?">>,   \* ?
      <<"!">> }   \* !

Vocabularies ==
    {ToneVocabulary, MessageVocabulary, TopicVocabulary, LineVocabulary, PatternVocabulary}

TextsOver(V) == {Flatten(ps) : ps \in UNION {[1..n -> V] : n \in 0..MaxPieces}}

RawTexts == UNION {TextsOver(V) : V \in Vocabularies}

----------------------------------------------------------------------------
(* AsyncStorage and the JSON blobs the StorageServices keep in it.  A blob *)
(* is a record: kind "json" with the parsed value, kind "null" for the     *)
(* JSON text null, kind "corrupt" for a string JSON.parse rejects.  A Date *)
(* is <<"Date", n>>; JSON.stringify writes it as the string <<"ISO", n>>,  *)
(* and new Date(string) reads it back.                                     *)

\* The keys of the static StorageService and of STORAGE_KEYS
CONVERSATIONS_KEY == "@conversations"
SETTINGS_KEY == "@settings"
CACHE_KEY == "@cache"
USER_PROFILE == "user_profile"
CONVERSATIONS == "conversations"
CURRENT_CONVERSATION == "current_conversation"

Keys ==
    {CONVERSATIONS_KEY, SETTINGS_KEY, CACHE_KEY, USER_PROFILE, CONVERSATIONS,
     CURRENT_CONVERSATION}

Json(v) == [kind |-> "json", value |-> Some(v)]
JsonNull == [kind |-> "null", value |-> None]
Corrupt == [kind |-> "corrupt", value |-> None]

\* No call has been made yet
NoCall == [op |-> "none", raised |-> FALSE, before |-> [k \in Keys |-> None],
           returned |-> None, readFailed |-> FALSE, writeFailed |-> FALSE]

\* The storage part of the state while no StorageService is exercised
StorageIdle ==
    /\ storage = [k \in Keys |-> None]
    /\ nextId = 1
    /\ calls = 0
    /\ lastCall = NoCall
    /\ clock = 0

\* The AIService part of the state while it is not exercised
AIIdle ==
    /\ openai = None
    /\ suggestionsCall = None
    /\ analysisCall = None
    /\ initialized = FALSE
    /\ mockCall = None
    /\ initializeCalled = [live |-> FALSE, mock |-> FALSE]

\* The validators' part of the state while they are not exercised
ValidationIdle ==
    /\ textValidation = None
    /\ image = [fileSize |-> 0, width |-> 0, height |-> 0]
    /\ imageValidation = [live |-> None, mock |-> None]

\* The concurrent saves' part of the state while none is made
RaceIdle ==
    /\ saveService = "static"
    /\ savers = <<>>

\* The ChatScreen's part of the state while no ChatScreen is mounted
ChatIdle ==
    /\ route = [conversationId |-> None, initialText |-> None]
    /\ conversationState = None
    /\ userProfile = None
    /\ isTyping = FALSE
    /\ isLoading = FALSE
    /\ handlers = <<>>
    /\ dateNow = 0
    /\ taps = 0
    /\ added = {}
    /\ chatFailed = FALSE

\* The screens' and validators' part of the state while not exercised
AppIdle ==
    /\ ValidationIdle
    /\ RaceIdle
    /\ ChatIdle

\* Date.prototype.toJSON, as JSON.stringify applies it
toISOString(d) == <<"ISO", d[2]>>

\* new Date(isoString)
newDate(str) == <<"Date", str[2]>>

----------------------------------------------------------------------------
(* The state machine: a recognized text arrives, and the services are      *)
(* applied to it.                                                          *)

Init ==
    /\ text \in RawTexts
    /\ conversationData = None
    /\ structuredLines = None
    /\ processedText = None
    /\ blocks = <<>>
    /\ confidenceMLKit = None
    /\ confidenceMock = None
    /\ StorageIdle
    /\ AIIdle
    /\ AppIdle

\* OCRService.processConversationFromOCR(imageUri, ocrResult)
ProcessConversationFromOCR ==
    /\ conversationData = None
    /\ conversationData' = Some(processConversationFromOCR(text))
    /\ UNCHANGED <<text, structuredLines, processedText>>
    /\ UNCHANGED confidenceVars
    /\ UNCHANGED aiVars
    /\ UNCHANGED appVars
    /\ UNCHANGED storageVars

\* OCRService.identifyConversationStructure(cleanedLines)
IdentifyConversationStructure ==
    /\ structuredLines = None
    /\ structuredLines' = Some(identifyConversationStructure(CleanedLines(split(text, "\n"))))
    /\ UNCHANGED <<text, conversationData, processedText>>
    /\ UNCHANGED confidenceVars
    /\ UNCHANGED aiVars
    /\ UNCHANGED appVars
    /\ UNCHANGED storageVars

Next ==
    \/ ProcessConversationFromOCR
    \/ IdentifyConversationStructure

Spec == Init /\ [][Next]_vars

----------------------------------------------------------------------------
(* The conversation-formatted extraction path of the mock OCRService.      *)

InitText ==
    /\ text \in TextsOver(CleanupVocabulary)
    /\ conversationData = None
    /\ structuredLines = None
    /\ processedText = None
    /\ blocks = <<>>
    /\ confidenceMLKit = None
    /\ confidenceMock = None
    /\ StorageIdle
    /\ AIIdle
    /\ AppIdle

\* OCRService.processConversationText(result.text), as called by
\* extractConversationFromImage
ProcessConversationText ==
    /\ processedText = None
    /\ processedText' = Some(processConversationText(text))
    /\ UNCHANGED <<text, conversationData, structuredLines>>
    /\ UNCHANGED confidenceVars
    /\ UNCHANGED aiVars
    /\ UNCHANGED appVars
    /\ UNCHANGED storageVars

NextText == ProcessConversationText

SpecText == InitText /\ [][NextText]_vars

----------------------------------------------------------------------------
(* The confidence aggregate of a text recognition result, in both          *)
(* OCRService variants.  A confidence is an integer number of hundredths   *)
(* (0.8 is 80); a block is a record whose confidence field is None when    *)
(* the recognizer gave none.  The aggregate is the exact fraction          *)
(* num / (100 * den), as a record, so that no rounding is modelled.        *)

\* 0.8, the default of block.confidence || 0.8
DefaultConfidence == 80

\* Confidences a recognizer can report, around and outside [0, 1]
ConfidenceValues == {-50, 0, 50, 100, 150}

Block == [confidence : {None} \cup {Some(c) : c \in ConfidenceValues}]

BlockLists == UNION {[1..n -> Block] : n \in 0..MaxBlocks}

\* block.confidence || 0.8: undefined and 0 are falsy
ConfidenceOrDefault(block) ==
    IF block.confidence = None \/ block.confidence[1] = 0
    THEN DefaultConfidence
    ELSE block.confidence[1]

\* blocks.reduce((sum, block) => sum + (block.confidence || 0.8), 0)
RECURSIVE totalConfidence(_)
totalConfidence(bs) ==
    IF bs = <<>> THEN 0
    ELSE totalConfidence(SubSeq(bs, 1, Len(bs) - 1)) + ConfidenceOrDefault(bs[Len(bs)])

\* calculateOverallConfidence of the ML Kit service: no clamp
calculateOverallConfidenceMLKit(bs) ==
    IF Len(bs) = 0 THEN [num |-> 0, den |-> 1]
    ELSE [num |-> totalConfidence(bs), den |-> Len(bs)]

\* calculateOverallConfidence of the mock service:
\* Math.min(totalConfidence / blocks.length, 1.0)
calculateOverallConfidenceMock(bs) ==
    IF Len(bs) = 0 THEN [num |-> 0, den |-> 1]
    ELSE IF totalConfidence(bs) < 100 * Len(bs)
         THEN [num |-> totalConfidence(bs), den |-> Len(bs)]
         ELSE [num |-> 100, den |-> 1]

InitConfidence ==
    /\ text = <<>>
    /\ conversationData = None
    /\ structuredLines = None
    /\ processedText = None
    /\ blocks \in BlockLists
    /\ confidenceMLKit = None
    /\ confidenceMock = None
    /\ StorageIdle
    /\ AIIdle
    /\ AppIdle

\* extractTextFromImage of the ML Kit service: confidence of result.blocks
ExtractTextFromImageMLKit ==
    /\ confidenceMLKit = None
    /\ confidenceMLKit' = Some(calculateOverallConfidenceMLKit(blocks))
    /\ UNCHANGED <<blocks, confidenceMock>>
    /\ UNCHANGED ocrVars
    /\ UNCHANGED storageVars
    /\ UNCHANGED aiVars
    /\ UNCHANGED appVars

\* extractTextFromImage of the mock service: confidence of result.blocks
ExtractTextFromImageMock ==
    /\ confidenceMock = None
    /\ confidenceMock' = Some(calculateOverallConfidenceMock(blocks))
    /\ UNCHANGED <<blocks, confidenceMLKit>>
    /\ UNCHANGED ocrVars
    /\ UNCHANGED storageVars
    /\ UNCHANGED aiVars
    /\ UNCHANGED appVars

NextConfidence ==
    \/ ExtractTextFromImageMLKit
    \/ ExtractTextFromImageMock

SpecConfidence == InitConfidence /\ [][NextConfidence]_vars

----------------------------------------------------------------------------
(* Properties of the live OCRService.                                      *)

Analyzed == conversationData # None
Data == conversationData[1]
Messages == Data.messages
Tone == Data.conversationTone

\* The input lines that are not all white space, in input order
InputLines == SelectSeq(split(text, "\n"), LAMBDA l : \E i \in 1..Len(l) : ~IsSpace(l[i]))

\* C1: overallTone and emotionalIntensity are those of the first rule that
\* matches, in the order heated (negative > positive + 2), tense (tension > 2
\* or negative > positive), friendly (positive > negative + 1), neutral; all
\* comparisons are strict.
C1_ToneFirstMatchingRule ==
    Analyzed =>
        LET pos == positiveCount(text)
            neg == negativeCount(text)
            ten == tensionCount(text)
            got == <<Tone.overallTone, Tone.emotionalIntensity>>
        IN  /\ neg > pos + 2 => got = <<"heated", 8>>
            /\ neg <= pos + 2 /\ (ten > 2 \/ neg > pos) => got = <<"tense", 6>>
            /\ neg <= pos /\ ten <= 2 /\ pos > neg + 1 => got = <<"friendly", 3>>
            /\ neg <= pos /\ ten <= 2 /\ pos <= neg + 1 => got = <<"neutral", 5>>

\* A text with negative = positive + 2 has been classified, and is tense
C1_Witness ==
    /\ Analyzed
    /\ negativeCount(text) = positiveCount(text) + 2
    /\ Tone.overallTone = "tense"

\* C2 (as claimed): a line that matches "Name: message" gives the trimmed
\* name and the trimmed remainder; every other line, also one that matches
\* only the time pattern, gives sender "Unknown" and the whole trimmed line.
C2_UnknownUnlessNamePrefix ==
    Analyzed =>
        \A k \in 1..Len(Messages) :
            LET line == InputLines[Messages[k].id + 1]
                a == NameMessageMatch(line)
            IN  IF a.matched
                THEN Messages[k].sender = trim(a.g1) /\ Messages[k].content = trim(a.g2)
                ELSE Messages[k].sender = Unknown /\ Messages[k].content = trim(line)

\* C3: the messages are in input line order, at most one per line that is
\* not all white space, each taken from the line its index names; so there
\* are no more messages than such lines.
C3_MessagesFollowLines ==
    Analyzed =>
        /\ Len(Messages) <= Len(InputLines)
        /\ \A k \in 1..Len(Messages) :
            /\ Messages[k].id < Len(InputLines)
            /\ includes(InputLines[Messages[k].id + 1], Messages[k].content)
        /\ \A j, k \in 1..Len(Messages) : j < k => Messages[j].id < Messages[k].id

\* Two messages have been emitted from a text that has a blank line before
\* its last message line
C3_Witness ==
    /\ Analyzed
    /\ Len(Messages) >= 2
    /\ LET all == split(text, "\n")
       IN  \E i, j \in 1..Len(all) : i < j /\ trim(all[i]) = <<>> /\ trim(all[j]) # <<>>

\* C4: participants has no duplicates and does not contain "Unknown".
C4_ParticipantsDistinctKnown ==
    Analyzed =>
        /\ \A i \in 1..Len(Data.participants) : Data.participants[i] # Unknown
        /\ \A i, j \in 1..Len(Data.participants) :
            i # j => Data.participants[i] # Data.participants[j]

\* A line "Unknown: ..." has been attributed by its name prefix, next to a
\* sender that occurs twice
C4_Witness ==
    /\ Analyzed
    /\ \E k \in 1..Len(Messages) :
        /\ Messages[k].sender = Unknown
        /\ NameMessageMatch(InputLines[Messages[k].id + 1]).matched
    /\ \E j, k \in 1..Len(Messages) :
        j # k /\ Messages[j].sender = Messages[k].sender /\ Messages[j].sender # Unknown

\* Number of positions of s at which w occurs
Occurrences(s, w) ==
    Cardinality({i \in 0..(Len(s) - Len(w)) : SubSeq(s, i + 1, i + Len(w)) = w})

RECURSIVE SumOccurrences(_, _)
SumOccurrences(s, words) ==
    IF Len(words) = 0 THEN 0
    ELSE Occurrences(s, words[1]) + SumOccurrences(s, Tail(words))

Verdict(positive, negative) ==
    IF positive > negative THEN "positive"
    ELSE IF negative > positive THEN "negative"
    ELSE "neutral"

\* C5 (as claimed): the sentiment of a message compares the numbers of
\* occurrences of the positive and of the negative terms in the lower-cased
\* content, a term that occurs k times counting k.
C5_SentimentByOccurrences ==
    Analyzed =>
        \A k \in 1..Len(Messages) :
            LET lower == toLowerCase(Messages[k].content)
            IN  Messages[k].sentiment =
                    Verdict(SumOccurrences(lower, SentimentPositiveWords),
                            SumOccurrences(lower, SentimentNegativeWords))

\* The terms of a word list that occur in s
TermsIn(s, words) == {words[i] : i \in {j \in 1..Len(words) : Occurrences(s, words[j]) > 0}}

\* C5 (amended): the sentiment of a message compares the numbers of distinct
\* positive and distinct negative terms that occur in the lower-cased
\* content, a term counting once however often it occurs.
C5_SentimentByDistinctTerms ==
    Analyzed =>
        \A k \in 1..Len(Messages) :
            LET lower == toLowerCase(Messages[k].content)
            IN  Messages[k].sentiment =
                    Verdict(Cardinality(TermsIn(lower, SentimentPositiveWords)),
                            Cardinality(TermsIn(lower, SentimentNegativeWords)))

\* A message in which a positive term occurs twice and one negative term
\* once has been classified, and is neutral
C5_Witness ==
    /\ Analyzed
    /\ \E k \in 1..Len(Messages) :
        LET lower == toLowerCase(Messages[k].content)
        IN  /\ SumOccurrences(lower, SentimentPositiveWords) = 2
            /\ SumOccurrences(lower, SentimentNegativeWords) = 1
            /\ Messages[k].sentiment = "neutral"

\* The tokens of the text as the word-character filter leaves them
Tokens == TopicWords(text)

\* C6 (as claimed): keyTopics is the distinct tokens ordered by frequency
\* descending, equally frequent tokens in order of first occurrence, cut to
\* the first five; for digit-only tokens too.
C6_TiesByFirstOccurrence ==
    Analyzed =>
        LET ranked == SortByFrequency(InsertionOrder(Tokens), Tokens)
        IN  Tone.keyTopics = SubSeq(ranked, 1, IF Len(ranked) < 5 THEN Len(ranked) ELSE 5)

\* C7: keyTopics has at most five entries, pairwise distinct, each longer
\* than three characters and without an upper-case letter.
C7_KeyTopicsShape ==
    Analyzed =>
        /\ Len(Tone.keyTopics) <= 5
        /\ \A i, j \in 1..Len(Tone.keyTopics) : i # j => Tone.keyTopics[i] # Tone.keyTopics[j]
        /\ \A i \in 1..Len(Tone.keyTopics) :
            /\ Len(Tone.keyTopics[i]) > 3
            /\ \A q \in 1..Len(Tone.keyTopics[i]) : ~IsUpper(Tone.keyTopics[i][q])

\* A text with an upper-case letter and six distinct tokens has been
\* analysed, and five topics are kept
C7_Witness ==
    /\ Analyzed
    /\ \E q \in 1..Len(text) : IsUpper(text[q])
    /\ Len(InsertionOrder(Tokens)) > 5
    /\ Len(Tone.keyTopics) = 5

\* C8: an empty or all-white-space text gives no messages, no participants,
\* tone neutral with intensity 5, no key topics and no pattern flags.
C8_BlankTextDefaults ==
    Analyzed /\ (\A q \in 1..Len(text) : IsSpace(text[q])) =>
        /\ Messages = <<>>
        /\ Data.participants = <<>>
        /\ Tone.overallTone = "neutral"
        /\ Tone.emotionalIntensity = 5
        /\ Tone.keyTopics = <<>>
        /\ Tone.communicationPatterns = <<>>

\* A non-empty text of white space over two lines has been analysed
C8_Witness ==
    /\ Analyzed
    /\ Len(text) >= 2
    /\ \A q \in 1..Len(text) : IsSpace(text[q])
    /\ \E q \in 1..Len(text) : text[q] = "\n"

\* The flags in the order identifyPatterns checks them
FlagOrder ==
    <<"Questions present", "Emotional expressions", "Apologies detected",
      "Contradictions present">>

\* w occurs in the text, in any mixture of cases
OccursIgnoringCase(w) ==
    \E i \in 0..(Len(text) - Len(w)) :
        \A q \in 1..Len(w) : text[i + q] = w[q] \/ LowerChar(text[i + q]) = w[q]

\* The trigger of the k-th flag occurs in the text
Triggered(k) ==
    CASE k = 1 -> \E q \in 1..Len(text) : text[q] = "?"
      [] k = 2 -> \E q \in 1..Len(text) : text[q] = "!"
      [] k = 3 -> \/ OccursIgnoringCase(<<"s","o","r","r","y">>)
                  \/ OccursIgnoringCase(<<"a","p","o","l","o","g","i","z","e">>)
      [] k = 4 -> \/ OccursIgnoringCase(<<"b","u","t">>)
                  \/ OccursIgnoringCase(<<"h","o","w","e","v","e","r">>)

\* C13: the pattern flags are a subsequence of the fixed order, each at most
\* once, and a flag is present exactly when its trigger occurs in the text,
\* in any case.
C13_PatternFlags ==
    Analyzed =>
        LET flags == Tone.communicationPatterns
            at(i) == CHOOSE k \in 1..4 : FlagOrder[k] = flags[i]
        IN  /\ \A i \in 1..Len(flags) : \E k \in 1..4 : FlagOrder[k] = flags[i]
            /\ \A i, j \in 1..Len(flags) : i < j => at(i) < at(j)
            /\ \A k \in 1..4 : Triggered(k) <=> \E i \in 1..Len(flags) : flags[i] = FlagOrder[k]

\* A text with all four triggers, two of them in upper case, has been
\* analysed
C13_Witness ==
    /\ Analyzed
    /\ \A k \in 1..4 : Triggered(k)
    /\ ~includes(text, <<"s","o","r","r","y">>)
    /\ ~includes(text, <<"b","u","t">>)
    /\ Len(Tone.communicationPatterns) = 4

\* "John: Hey, how are you?\nSarah: I'm good, thanks!"
ScenarioText ==
    <<"J","o","h","n",":"," ","H","e","y",","," ","h","o","w"," ","a","r","e"," ",
      "y","o","u","?","\n",
      "S","a","r","a","h",":"," ","I","'","m"," ","g","o","o","d",","," ",
      "t","h","a","n","k","s","!">>

\* C14: the scenario text gives exactly two messages, from John then Sarah,
\* participants John and Sarah, John's message neutral and Sarah's positive.
C14_Scenario ==
    Analyzed /\ text = ScenarioText =>
        /\ Len(Messages) = 2
        /\ Messages[1].sender = <<"J","o","h","n">>
        /\ Messages[2].sender = <<"S","a","r","a","h">>
        /\ Data.participants = << <<"J","o","h","n">>, <<"S","a","r","a","h">> >>
        /\ Messages[1].sentiment = "neutral"
        /\ Messages[2].sentiment = "positive"

\* The scenario text has been analysed
C14_Witness == Analyzed /\ text = ScenarioText /\ Len(Messages) = 2

----------------------------------------------------------------------------
(* Properties of the structured pass.                                      *)

Structured == structuredLines # None
InputCleanedLines == CleanedLines(split(text, "\n"))

\* /^\d{1,2}\/\d{1,2}$/
WholeLineDay(line) ==
    \E d, e \in {1, 2} :
        /\ Len(line) = d + 1 + e
        /\ DayAt(line, 1, d)
        /\ \A q \in (d + 2)..Len(line) : IsDigit(line[q])

\* The whole line is a time stamp: H:MM, M/D or YYYY-MM-DD
WholeLineTimestamp(line) ==
    \/ \E d \in {1, 2} : Len(line) = d + 3 /\ TimeAt(line, 1, d)
    \/ WholeLineDay(line)
    \/ Len(line) = 10 /\ DateAt(line, 1)

C10_NoTimestampReturned ==
    Structured =>
        \A j \in 1..Len(structuredLines[1]) : ~timePatternTest(structuredLines[1][j])

----------------------------------------------------------------------------
(* Properties of processConversationText.                                  *)

Processed == processedText # None
\* The lines of the returned text (the empty text has none)
OutputLines == IF processedText[1] = <<>> THEN <<>> ELSE split(processedText[1], "\n")
\* The lines of the raw text, trimmed, without the blank ones
RawLines == SelectSeq([i \in 1..Len(split(text, "\n")) |-> trim(split(text, "\n")[i])],
                      LAMBDA l : Len(l) > 0)

\* C11 (as claimed): a raw text of k lines that each begin with a name
\* prefix, none with a time token, gives exactly k output lines.
C11_OneOutputLinePerSpeakerLine ==
    Processed /\ (\A i \in 1..Len(RawLines) :
                    /\ namePatternMatch(RawLines[i])
                    /\ Len(RawLines[i]) > 2
                    /\ ~timePatternTest(RawLines[i]))
        => Len(OutputLines) = Len(RawLines)

\* C12 (as claimed): every line of the returned text is trimmed, longer than
\* two characters, without a pipe and without two white-space characters in
\* a row.
C12_OutputLinesClean ==
    Processed =>
        \A i \in 1..Len(OutputLines) :
            LET l == OutputLines[i]
            IN  /\ trim(l) = l
                /\ Len(l) > 2
                /\ \A q \in 1..Len(l) : l[q] # "|"
                /\ \A q \in 1..(Len(l) - 1) : ~(IsSpace(l[q]) /\ IsSpace(l[q + 1]))

----------------------------------------------------------------------------
(* The conversation list of the static StorageService.                     *)

\* The 50 of updatedConversations.slice(0, 50)
ConversationLimit == 50

\* The n-th conversation handed to a save: its id and its dates are n
NewConversation(n) ==
    [id |-> n, timestamp |-> <<"Date", n>>,
     messages |-> <<[timestamp |-> <<"Date", n>>]>>]

\* JSON.stringify of a list of conversations: dates become ISO strings
stringifyConversations(cs) ==
    Json([i \in 1..Len(cs) |->
            [id |-> cs[i].id,
             timestamp |-> toISOString(cs[i].timestamp),
             messages |-> [j \in 1..Len(cs[i].messages) |->
                              [timestamp |-> toISOString(cs[i].messages[j].timestamp)]]]])

\* StorageService.getAllConversations, on the stored item and on whether
\* AsyncStorage.getItem rejects: a rejection, a string JSON.parse rejects and
\* a parsed null (null.map) all end in the catch, which returns []
getAllConversations(item, readFails) ==
    IF readFails THEN <<>>
    ELSE IF item = None THEN <<>>
    ELSE IF item[1].kind # "json" THEN <<>>
    ELSE LET conversations == item[1].value[1]
         IN  [i \in 1..Len(conversations) |->
                 [id |-> conversations[i].id,
                  timestamp |-> newDate(conversations[i].timestamp),
                  messages |-> [j \in 1..Len(conversations[i].messages) |->
                                   [timestamp |-> newDate(conversations[i].messages[j].timestamp)]]]]

\* A buggy variant of limitedConversations: the last 50 are kept.
limitedConversationsTailMutant(updatedConversations) ==
    SubSeq(updatedConversations,
           SetMax({1, Len(updatedConversations) - ConversationLimit + 1}),
           Len(updatedConversations))

\* updatedConversations.slice(0, 50)
limitedConversations(updatedConversations) ==
    SubSeq(updatedConversations, 1, SetMin({ConversationLimit, Len(updatedConversations)}))

\* conversations.filter(conv => conv.id !== id)
filteredConversations(conversations, id) ==
    SelectSeq(conversations, LAMBDA conv : conv.id # id)

\* n conversations saved one after the other, the last one first
Saved(n) == [i \in 1..n |-> NewConversation(n + 1 - i)]

\* What the device can hold under @conversations when the application
\* starts: nothing, a damaged string, or the list left by earlier saves
SavedBefore == {ConversationLimit - 1, ConversationLimit}

InitStorage ==
    /\ text = <<>>
    /\ conversationData = None
    /\ structuredLines = None
    /\ processedText = None
    /\ blocks = <<>>
    /\ confidenceMLKit = None
    /\ confidenceMock = None
    /\ \/ /\ storage \in {[[k \in Keys |-> None] EXCEPT ![CONVERSATIONS_KEY] = item] :
                              item \in {None, Some(Corrupt)}}
          /\ nextId = 1
       \/ \E n \in SavedBefore :
             /\ storage = [[k \in Keys |-> None] EXCEPT
                               ![CONVERSATIONS_KEY] = Some(stringifyConversations(Saved(n)))]
             /\ nextId = n + 1
    /\ calls = 0
    /\ lastCall = NoCall
    /\ clock = 0
    /\ AIIdle
    /\ AppIdle

\* StorageService.saveConversation(conversation); getItem or setItem of
\* AsyncStorage may reject
SaveConversation ==
    /\ calls < MaxCalls
    /\ \E readFails, writeFails \in BOOLEAN :
          LET conversation == NewConversation(nextId)
              existingConversations == getAllConversations(storage[CONVERSATIONS_KEY], readFails)
              updatedConversations == <<conversation>> \o existingConversations
          IN  /\ storage' = IF writeFails THEN storage
                            ELSE [storage EXCEPT ![CONVERSATIONS_KEY] =
                                     Some(stringifyConversations(
                                              limitedConversations(updatedConversations)))]
              /\ lastCall' = [op |-> "saveConversation", raised |-> writeFails,
                              before |-> storage, returned |-> None,
                              readFailed |-> readFails, writeFailed |-> writeFails]
    /\ nextId' = nextId + 1
    /\ calls' = calls + 1
    /\ UNCHANGED clock
    /\ UNCHANGED ocrVars
    /\ UNCHANGED confidenceVars
    /\ UNCHANGED aiVars
    /\ UNCHANGED appVars

\* Ids a caller asks to delete: one never saved, the newest and the oldest
\* stored
DeleteTargets ==
    LET stored == getAllConversations(storage[CONVERSATIONS_KEY], FALSE)
    IN  {0} \cup {stored[i].id : i \in {1, Len(stored)} \cap DOMAIN stored}

\* StorageService.deleteConversation(id)
DeleteConversation ==
    /\ calls < MaxCalls
    /\ \E id \in DeleteTargets, readFails, writeFails \in BOOLEAN :
          LET conversations == getAllConversations(storage[CONVERSATIONS_KEY], readFails)
          IN  /\ storage' = IF writeFails THEN storage
                            ELSE [storage EXCEPT ![CONVERSATIONS_KEY] =
                                     Some(stringifyConversations(
                                              filteredConversations(conversations, id)))]
              /\ lastCall' = [op |-> "deleteConversation", raised |-> writeFails,
                              before |-> storage, returned |-> None,
                              readFailed |-> readFails, writeFailed |-> writeFails]
    /\ calls' = calls + 1
    /\ UNCHANGED clock
    /\ UNCHANGED nextId
    /\ UNCHANGED ocrVars
    /\ UNCHANGED confidenceVars
    /\ UNCHANGED aiVars
    /\ UNCHANGED appVars

\* StorageService.clearAllConversations(); removeItem may reject
ClearAllConversations ==
    /\ calls < MaxCalls
    /\ \E removeFails \in BOOLEAN :
          /\ storage' = IF removeFails THEN storage
                        ELSE [storage EXCEPT ![CONVERSATIONS_KEY] = None]
          /\ lastCall' = [op |-> "clearAllConversations", raised |-> removeFails,
                          before |-> storage, returned |-> None,
                          readFailed |-> FALSE, writeFailed |-> removeFails]
    /\ calls' = calls + 1
    /\ UNCHANGED clock
    /\ UNCHANGED nextId
    /\ UNCHANGED ocrVars
    /\ UNCHANGED confidenceVars
    /\ UNCHANGED aiVars
    /\ UNCHANGED appVars

NextStorage ==
    \/ SaveConversation
    \/ DeleteConversation
    \/ ClearAllConversations

SpecStorage == InitStorage /\ [][NextStorage]_vars

----------------------------------------------------------------------------
(* The read and write paths of both StorageServices.  A path gives an      *)
(* outcome: whether it raised, what it returned (None for void, and a      *)
(* JavaScript null is the empty option Null), and the storage it left.     *)

Null == <<>>
Return(store, v) == [raised |-> FALSE, returned |-> Some(v), storage |-> store]
Done(store) == [raised |-> FALSE, returned |-> None, storage |-> store]
Throw(store) == [raised |-> TRUE, returned |-> None, storage |-> store]

\* 60 * 60 * 1000
OneHour == 3600000

\* StorageService.getDefaultSettings()
getDefaultSettings ==
    [apiKey |-> "", autoSaveConversations |-> TRUE, analysisType |-> "full",
     notificationsEnabled |-> TRUE, theme |-> "light", maxStoredConversations |-> 50]

\* StorageService.getConversationById(id)
getConversationById(store, id, readFails) ==
    LET conversations == getAllConversations(store[CONVERSATIONS_KEY], readFails)
        found == SelectSeq(conversations, LAMBDA conv : conv.id = id)
    IN  Return(store, IF found = <<>> THEN Null ELSE Some(found[1]))

\* StorageService.getSettings(): a parsed null spreads to nothing
getSettings(store, readFails) ==
    LET item == store[SETTINGS_KEY]
    IN  IF readFails THEN Return(store, getDefaultSettings)
        ELSE IF item = None THEN Return(store, getDefaultSettings)
        ELSE IF item[1].kind = "corrupt" THEN Return(store, getDefaultSettings)
        ELSE IF item[1].kind = "null" THEN Return(store, getDefaultSettings)
        ELSE Return(store, item[1].value[1] @@ getDefaultSettings)

\* The r-th analysis result handed to the cache
AnalysisResult(r) ==
    [conversationData |-> [id |-> r, timestamp |-> <<"Date", r>>], suggestions |-> r]

\* JSON.stringify(cacheData) of cacheAnalysisResult at time now
stringifyCacheData(analysisResult, now) ==
    Json([conversationData |->
              [id |-> analysisResult.conversationData.id,
               timestamp |-> toISOString(analysisResult.conversationData.timestamp)],
          suggestions |-> analysisResult.suggestions,
          cachedAt |-> <<"ISO", now>>])

\* StorageService.cacheAnalysisResult(conversationId, analysisResult) at
\* time now: a failed write is only logged
cacheAnalysisResult(store, analysisResult, writeFails, now) ==
    IF writeFails THEN Done(store)
    ELSE Done([store EXCEPT ![CACHE_KEY] = Some(stringifyCacheData(analysisResult, now))])

\* A buggy variant of getCachedAnalysisResult: an entry exactly one hour old
\* has expired.
getCachedAnalysisResultEarlyMutant(store, readFails, removeFails, now) ==
    LET item == store[CACHE_KEY]
    IN  IF readFails THEN Return(store, Null)
        ELSE IF item = None THEN Return(store, Null)
        ELSE IF item[1].kind # "json" THEN Return(store, Null)
        ELSE IF now - item[1].value[1].cachedAt[2] >= OneHour
             THEN IF removeFails THEN Return(store, Null)
                  ELSE Return([store EXCEPT ![CACHE_KEY] = None], Null)
             ELSE Return(store, Some([f \in DOMAIN item[1].value[1] \ {"cachedAt"} |->
                                         item[1].value[1][f]]))

\* StorageService.getCachedAnalysisResult(conversationId) at time now;
\* removeItem of an expired entry may reject, which the catch turns into null
getCachedAnalysisResult(store, readFails, removeFails, now) ==
    LET item == store[CACHE_KEY]
    IN  IF readFails THEN Return(store, Null)
        ELSE IF item = None THEN Return(store, Null)
        ELSE IF item[1].kind # "json" THEN Return(store, Null)
        ELSE LET cachedData == item[1].value[1]
                 cachedAt == newDate(cachedData.cachedAt)
             IN  IF now - cachedAt[2] > OneHour
                 THEN IF removeFails THEN Return(store, Null)
                      ELSE Return([store EXCEPT ![CACHE_KEY] = None], Null)
                 ELSE Return(store, Some([f \in DOMAIN cachedData \ {"cachedAt"} |->
                                             cachedData[f]]))

\* The n-th user profile, with or without style data
NewProfile(n, styled) ==
    [id |-> n, createdAt |-> <<"Date", n>>, updatedAt |-> <<"Date", n>>,
     styleData |-> IF styled THEN Some([lastUpdated |-> <<"Date", n>>]) ELSE None]

\* JSON.stringify(profile)
stringifyProfile(profile) ==
    Json([id |-> profile.id,
          createdAt |-> toISOString(profile.createdAt),
          updatedAt |-> toISOString(profile.updatedAt),
          styleData |-> IF profile.styleData = None THEN None
                        ELSE Some([lastUpdated |->
                                      toISOString(profile.styleData[1].lastUpdated)])])

\* A buggy variant of saveUserProfile: a failed write is only logged.
saveUserProfileSwallowMutant(store, profile, writeFails) ==
    IF writeFails THEN Done(store)
    ELSE Done([store EXCEPT ![USER_PROFILE] = Some(stringifyProfile(profile))])

\* storageService.saveUserProfile(profile)
saveUserProfile(store, profile, writeFails) ==
    IF writeFails THEN Throw(store)
    ELSE Done([store EXCEPT ![USER_PROFILE] = Some(stringifyProfile(profile))])

\* A buggy variant of getUserProfile: no catch around the read.
getUserProfileNoCatchMutant(store, readFails) ==
    LET item == store[USER_PROFILE]
    IN  IF readFails THEN Throw(store)
        ELSE IF item = None THEN Return(store, Null)
        ELSE IF item[1].kind # "json" THEN Throw(store)
        ELSE Return(store, Some(item[1].value[1]))

\* storageService.getUserProfile(): a rejected read, a string JSON.parse
\* rejects and a parsed null (assignment to a property of null) end in the
\* catch
getUserProfile(store, readFails) ==
    LET item == store[USER_PROFILE]
    IN  IF readFails THEN Return(store, Null)
        ELSE IF item = None THEN Return(store, Null)
        ELSE IF item[1].kind # "json" THEN Return(store, Null)
        ELSE LET profile == item[1].value[1]
             IN  Return(store,
                        Some([id |-> profile.id,
                              createdAt |-> newDate(profile.createdAt),
                              updatedAt |-> newDate(profile.updatedAt),
                              styleData |->
                                  IF profile.styleData = None THEN None
                                  ELSE Some([lastUpdated |->
                                                newDate(profile.styleData[1].lastUpdated)])]))

\* A Conversation of the instance service: id, and n for its dates
Conversation(id, n) ==
    [id |-> id, createdAt |-> <<"Date", n>>, updatedAt |-> <<"Date", n>>,
     messages |-> <<[timestamp |-> <<"Date", n>>]>>]

\* What JSON.stringify writes for one Conversation: the dates become ISO
\* strings, the other members of a message are written as they are
ConversationJson(c) ==
    [id |-> c.id,
     createdAt |-> toISOString(c.createdAt),
     updatedAt |-> toISOString(c.updatedAt),
     messages |-> [j \in 1..Len(c.messages) |->
                      [f \in DOMAIN c.messages[j] |->
                          IF f = "timestamp" THEN toISOString(c.messages[j][f])
                          ELSE c.messages[j][f]]]]

\* The date conversion getConversations and getCurrentConversation apply
ReviveConversation(c) ==
    [id |-> c.id,
     createdAt |-> newDate(c.createdAt),
     updatedAt |-> newDate(c.updatedAt),
     messages |-> [j \in 1..Len(c.messages) |->
                      [f \in DOMAIN c.messages[j] |->
                          IF f = "timestamp" THEN newDate(c.messages[j][f])
                          ELSE c.messages[j][f]]]]

\* storageService.getConversations()
getConversations(store, readFails) ==
    LET item == store[CONVERSATIONS]
    IN  IF readFails THEN Return(store, <<>>)
        ELSE IF item = None THEN Return(store, <<>>)
        ELSE IF item[1].kind # "json" THEN Return(store, <<>>)
        ELSE Return(store, [i \in 1..Len(item[1].value[1]) |->
                               ReviveConversation(item[1].value[1][i])])

\* storageService.saveConversations(conversations)
saveConversations(store, conversations, writeFails) ==
    IF writeFails THEN Throw(store)
    ELSE Done([store EXCEPT ![CONVERSATIONS] =
                  Some(Json([i \in 1..Len(conversations) |->
                                ConversationJson(conversations[i])]))])

\* storageService.saveConversation(conversation): replace the entry of the
\* same id, or push
saveConversationInstance(store, conversation, readFails, writeFails) ==
    LET conversations == getConversations(store, readFails).returned[1]
        existing == {i \in 1..Len(conversations) : conversations[i].id = conversation.id}
        updated == IF existing # {}
                   THEN [conversations EXCEPT ![SetMin(existing)] = conversation]
                   ELSE Append(conversations, conversation)
    IN  saveConversations(store, updated, writeFails)

\* storageService.getCurrentConversation()
getCurrentConversation(store, readFails) ==
    LET item == store[CURRENT_CONVERSATION]
    IN  IF readFails THEN Return(store, Null)
        ELSE IF item = None THEN Return(store, Null)
        ELSE IF item[1].kind # "json" THEN Return(store, Null)
        ELSE Return(store, Some(ReviveConversation(item[1].value[1])))

\* What the device can hold when the application starts: under every key
\* nothing, a damaged string, the JSON text null, or a value saved earlier
StoredEarlier ==
    [k \in Keys |->
        CASE k = CONVERSATIONS_KEY -> Some(stringifyConversations(Saved(1)))
          [] k = SETTINGS_KEY -> Some(Json([theme |-> "dark"]))
          [] k = CACHE_KEY -> Some(stringifyCacheData(AnalysisResult(1), 0))
          [] k = USER_PROFILE -> Some(stringifyProfile(NewProfile(1, TRUE)))
          [] k = CONVERSATIONS -> Some(Json(<<ConversationJson(Conversation(1, 1))>>))
          [] k = CURRENT_CONVERSATION -> Some(Json(ConversationJson(Conversation(1, 1))))]

InitialStorages ==
    {[k \in Keys |-> None], [k \in Keys |-> Some(Corrupt)],
     [k \in Keys |-> Some(JsonNull)], StoredEarlier}

InitPaths ==
    /\ text = <<>>
    /\ conversationData = None
    /\ structuredLines = None
    /\ processedText = None
    /\ blocks = <<>>
    /\ confidenceMLKit = None
    /\ confidenceMock = None
    /\ storage \in InitialStorages
    /\ nextId = 2
    /\ calls = 0
    /\ lastCall = NoCall
    /\ clock = 0
    /\ AIIdle
    /\ AppIdle

\* A call of a path that takes no new conversation or profile: op is its
\* name, outcome what it gave
CalledAt(op, outcome, readFails, writeFails, now) ==
    /\ calls < MaxCalls
    /\ storage' = outcome.storage
    /\ lastCall' = [op |-> op, raised |-> outcome.raised, before |-> storage,
                    returned |-> outcome.returned,
                    readFailed |-> readFails, writeFailed |-> writeFails]
    /\ calls' = calls + 1
    /\ clock' = now
    /\ UNCHANGED ocrVars
    /\ UNCHANGED confidenceVars
    /\ UNCHANGED aiVars
    /\ UNCHANGED appVars

\* A call of a path that does not read the time
Called(op, outcome, readFails, writeFails) ==
    CalledAt(op, outcome, readFails, writeFails, clock)

\* StorageService.getAllConversations()
GetAllConversations ==
    \E readFails \in BOOLEAN :
        /\ Called("getAllConversations",
                  Return(storage, getAllConversations(storage[CONVERSATIONS_KEY], readFails)),
                  readFails, FALSE)
        /\ UNCHANGED nextId

\* StorageService.getConversationById(id), for a stored and a missing id
GetConversationById ==
    \E id \in {0, 1}, readFails \in BOOLEAN :
        /\ Called("getConversationById", getConversationById(storage, id, readFails),
                  readFails, FALSE)
        /\ UNCHANGED nextId

\* StorageService.getSettings()
GetSettings ==
    \E readFails \in BOOLEAN :
        /\ Called("getSettings", getSettings(storage, readFails), readFails, FALSE)
        /\ UNCHANGED nextId

\* Time that passes before a call that reads the clock: none, an hour, and
\* one millisecond more
Elapsed == {0, OneHour, OneHour + 1}

\* StorageService.getCachedAnalysisResult(conversationId)
GetCachedAnalysisResult ==
    \E readFails, removeFails \in BOOLEAN, elapsed \in Elapsed :
        /\ CalledAt("getCachedAnalysisResult",
                    getCachedAnalysisResult(storage, readFails, removeFails, clock + elapsed),
                    readFails, removeFails, clock + elapsed)
        /\ UNCHANGED nextId

\* StorageService.cacheAnalysisResult(conversationId, analysisResult)
CacheAnalysisResult ==
    \E r \in {1, 2}, writeFails \in BOOLEAN, elapsed \in Elapsed :
        /\ CalledAt("cacheAnalysisResult",
                    cacheAnalysisResult(storage, AnalysisResult(r), writeFails, clock + elapsed),
                    FALSE, writeFails, clock + elapsed)
        /\ UNCHANGED nextId

\* storageService.saveUserProfile(profile)
SaveUserProfile ==
    \E styled, writeFails \in BOOLEAN :
        /\ Called("saveUserProfile",
                  saveUserProfile(storage, NewProfile(nextId, styled), writeFails),
                  FALSE, writeFails)
        /\ nextId' = nextId + 1

\* storageService.getUserProfile()
GetUserProfile ==
    \E readFails \in BOOLEAN :
        /\ Called("getUserProfile", getUserProfile(storage, readFails), readFails, FALSE)
        /\ UNCHANGED nextId

\* storageService.saveConversation(conversation)
SaveConversationInstance ==
    \E id \in {1, 2}, readFails, writeFails \in BOOLEAN :
        /\ Called("saveConversationInstance",
                  saveConversationInstance(storage, Conversation(id, nextId),
                                           readFails, writeFails),
                  readFails, writeFails)
        /\ nextId' = nextId + 1

\* storageService.getConversations()
GetConversations ==
    \E readFails \in BOOLEAN :
        /\ Called("getConversations", getConversations(storage, readFails), readFails, FALSE)
        /\ UNCHANGED nextId

\* storageService.getCurrentConversation()
GetCurrentConversation ==
    \E readFails \in BOOLEAN :
        /\ Called("getCurrentConversation", getCurrentConversation(storage, readFails),
                  readFails, FALSE)
        /\ UNCHANGED nextId

NextPaths ==
    \/ SaveConversation
    \/ GetAllConversations
    \/ GetConversationById
    \/ GetSettings
    \/ GetCachedAnalysisResult
    \/ SaveUserProfile
    \/ GetUserProfile
    \/ SaveConversationInstance
    \/ GetConversations
    \/ GetCurrentConversation

SpecPaths == InitPaths /\ [][NextPaths]_vars

\* The analysis cache alone, from an empty store
InitCache ==
    /\ text = <<>>
    /\ conversationData = None
    /\ structuredLines = None
    /\ processedText = None
    /\ blocks = <<>>
    /\ confidenceMLKit = None
    /\ confidenceMock = None
    /\ StorageIdle
    /\ AIIdle
    /\ AppIdle

NextCache ==
    \/ CacheAnalysisResult
    \/ GetCachedAnalysisResult

SpecCache == InitCache /\ [][NextCache]_vars

----------------------------------------------------------------------------
(* AIService.generateResponseSuggestions.  The outcome of the chat         *)
(* completion call is a record: kind says whether the call rejected, or    *)
(* what the content of the first choice is; for a JSON object whose        *)
(* suggestions member is an array, suggestions lists its elements.  An     *)
(* element is JSON null, a number, or an object, of which the four members *)
(* the code reads are kept (Undefined when the object has none).           *)

Undefined == "undefined"

\* Elements a suggestions array can hold
SuggestionElements ==
    { [t |-> "null", type |-> Undefined, content |-> Undefined,
       rationale |-> Undefined, tone |-> Undefined],
      [t |-> "number", type |-> Undefined, content |-> Undefined,
       rationale |-> Undefined, tone |-> Undefined],
      [t |-> "object", type |-> Undefined, content |-> Undefined,
       rationale |-> Undefined, tone |-> Undefined],
      [t |-> "object", type |-> "empathy", content |-> "I hear you",
       rationale |-> Undefined, tone |-> Undefined],
      [t |-> "object", type |-> "empathy", content |-> "I hear you",
       rationale |-> "shows care", tone |-> "supportive"] }

\* Outcomes without a suggestions array: the call rejects (network, rate
\* limit), there is no first choice or its content is null or '' (all read
\* as ''), the content is prose or fenced JSON, or it is JSON of another form
OtherOutcomeKinds ==
    {"networkError", "rateLimitError", "noChoices", "nullContent", "emptyContent",
     "notJson", "jsonNull", "jsonNumber", "objectWithoutSuggestions",
     "suggestionsNotArray"}

CompletionOutcomes ==
    {[kind |-> k, suggestions |-> <<>>] : k \in OtherOutcomeKinds}
    \cup {[kind |-> "suggestionsArray", suggestions |-> ss] :
              ss \in UNION {[1..n -> SuggestionElements] : n \in 0..MaxSuggestions}}

\* `suggestion_${index}`
SuggestionId(index) == "suggestion_" \o ToString(index)

\* AIService.getFallbackSuggestions()
getFallbackSuggestions ==
    << [id |-> "fallback_1", type |-> "clarification",
        content |-> "I want to make sure I understand your perspective correctly...",
        rationale |-> "Seeking clarification shows respect and prevents misunderstandings",
        tone |-> "supportive"],
       [id |-> "fallback_2", type |-> "empathy",
        content |-> "I can see this is important to you...",
        rationale |-> "Acknowledging the other person's feelings helps build connection",
        tone |-> "supportive"],
       [id |-> "fallback_3", type |-> "solution",
        content |-> "How can we work together to resolve this?",
        rationale |-> "Focusing on collaboration encourages problem-solving",
        tone |-> "neutral"] >>

\* The try block of generateResponseSuggestions on the outcome of the call:
\* a rejection, JSON.parse of '' or of a non-JSON text, parsed.suggestions of
\* null, map of undefined or of a non-array, and s.type of a null element all
\* throw into the catch; any other element is mapped member by member
SuggestionsFrom(outcome) ==
    IF outcome.kind # "suggestionsArray" THEN getFallbackSuggestions
    ELSE IF \E i \in 1..Len(outcome.suggestions) : outcome.suggestions[i].t = "null"
         THEN getFallbackSuggestions
    ELSE [i \in 1..Len(outcome.suggestions) |->
             [id |-> SuggestionId(i - 1),
              type |-> outcome.suggestions[i].type,
              content |-> outcome.suggestions[i].content,
              rationale |-> outcome.suggestions[i].rationale,
              tone |-> outcome.suggestions[i].tone]]

\* AIService.generateResponseSuggestions(conversationContext, targetMessage)
generateResponseSuggestions(client, outcome) ==
    IF client = None
    THEN [initialized |-> FALSE, outcome |-> [kind |-> "notCalled", suggestions |-> <<>>],
          raised |-> TRUE, error |-> "AI Service not initialized", returned |-> <<>>]
    ELSE [initialized |-> TRUE, outcome |-> outcome, raised |-> FALSE, error |-> "",
          returned |-> SuggestionsFrom(outcome)]

InitAI ==
    /\ text = <<>>
    /\ conversationData = None
    /\ structuredLines = None
    /\ processedText = None
    /\ blocks = <<>>
    /\ confidenceMLKit = None
    /\ confidenceMock = None
    /\ StorageIdle
    /\ AIIdle
    /\ AppIdle

\* AIService.initialize(apiKey)
Initialize ==
    /\ \E apiKey \in {"", "sk-test"} : openai' = Some(apiKey)
    /\ initializeCalled' = [initializeCalled EXCEPT !.live = TRUE]
    /\ UNCHANGED <<suggestionsCall, analysisCall, initialized, mockCall>>
    /\ UNCHANGED ocrVars
    /\ UNCHANGED confidenceVars
    /\ UNCHANGED storageVars
    /\ UNCHANGED appVars

\* A call of generateResponseSuggestions, with the outcome of its chat
\* completion call drawn from outcomes; the call is recorded with whether
\* initialize had been called before it
GenerateResponseSuggestionsOn(outcomes) ==
    /\ \E outcome \in outcomes :
          suggestionsCall' = Some(generateResponseSuggestions(openai, outcome)
                                  @@ [afterInitialize |-> initializeCalled.live])
    /\ UNCHANGED <<openai, analysisCall, initialized, mockCall, initializeCalled>>
    /\ UNCHANGED ocrVars
    /\ UNCHANGED confidenceVars
    /\ UNCHANGED storageVars
    /\ UNCHANGED appVars

GenerateResponseSuggestions == GenerateResponseSuggestionsOn(CompletionOutcomes)

NextAI ==
    \/ Initialize
    \/ GenerateResponseSuggestions

SpecAI == InitAI /\ [][NextAI]_vars

----------------------------------------------------------------------------
(* AIService.analyzeConversation.  A confidence is a number of hundredths. *)

\* The kinds of outcome in which the call to the language model rejects
FailedCallKinds == {"networkError", "rateLimitError"}

\* The kinds of outcome whose content JSON.parse rejects ('' included)
NotJsonKinds == {"noChoices", "nullContent", "emptyContent", "notJson"}

\* The value of a suggestions member that is a string, not an array
NotAnArray == <<"none">>

\* AIService.getFallbackResponse()
getFallbackResponse ==
    [analysis |-> "Unable to complete full analysis. Please try again.",
     suggestions |-> getFallbackSuggestions,
     insights |-> <<[category |-> "opportunity", title |-> "Communication Analysis",
                     description |-> "Consider reviewing the conversation for opportunities to improve understanding.",
                     importance |-> "medium"]>>,
     confidence |-> 50]

\* AIService.parseAIResponse(responseContent), on the content of a
\* completion: JSON.parse of a non-JSON text and parsed.analysis of null throw
\* into the catch; the completions of the model carry no analysis, insights
\* or confidence member, so these take their defaults; an array, even an
\* empty one, and a non-empty string are truthy and are returned as they are
parseAIResponse(outcome) ==
    IF outcome.kind \in NotJsonKinds \/ outcome.kind = "jsonNull"
    THEN getFallbackResponse
    ELSE [analysis |-> "Analysis completed",
          suggestions |-> CASE outcome.kind = "suggestionsArray" -> outcome.suggestions
                            [] outcome.kind = "suggestionsNotArray" -> NotAnArray
                            [] OTHER -> <<>>,
          insights |-> <<>>,
          confidence |-> 70]

\* A buggy variant of analyzeConversation: a failed call is reported as not
\* initialized.
analyzeConversationMessageMutant(client, outcome) ==
    IF client = None \/ outcome.kind \in FailedCallKinds
    THEN [initialized |-> client # None,
          outcome |-> [kind |-> "notCalled", suggestions |-> <<>>],
          raised |-> TRUE,
          error |-> "AI Service not initialized. Call initialize() with your API key first.",
          returned |-> None]
    ELSE [initialized |-> TRUE, outcome |-> outcome, raised |-> FALSE, error |-> "",
          returned |-> Some(parseAIResponse(outcome))]

\* AIService.analyzeConversation(conversationData, analysisType)
analyzeConversation(client, outcome) ==
    IF client = None
    THEN [initialized |-> FALSE, outcome |-> [kind |-> "notCalled", suggestions |-> <<>>],
          raised |-> TRUE,
          error |-> "AI Service not initialized. Call initialize() with your API key first.",
          returned |-> None]
    ELSE IF outcome.kind \in FailedCallKinds
    THEN [initialized |-> TRUE, outcome |-> outcome, raised |-> TRUE,
          error |-> "Failed to analyze conversation", returned |-> None]
    ELSE [initialized |-> TRUE, outcome |-> outcome, raised |-> FALSE, error |-> "",
          returned |-> Some(parseAIResponse(outcome))]

\* A call of analyzeConversation, with the outcome of its chat completion
\* call drawn from outcomes
AnalyzeConversationOn(outcomes) ==
    /\ \E outcome \in outcomes :
          analysisCall' = Some(analyzeConversation(openai, outcome)
                               @@ [afterInitialize |-> initializeCalled.live])
    /\ UNCHANGED <<openai, suggestionsCall, initialized, mockCall, initializeCalled>>
    /\ UNCHANGED ocrVars
    /\ UNCHANGED confidenceVars
    /\ UNCHANGED storageVars
    /\ UNCHANGED appVars

AnalyzeConversation == AnalyzeConversationOn(CompletionOutcomes)

NextAnalysis ==
    \/ Initialize
    \/ AnalyzeConversation

SpecAnalysis == InitAI /\ [][NextAnalysis]_vars

----------------------------------------------------------------------------
(* The mock AIService, and both services around initialize.                *)

\* The keys of mockResponses and the confidence of each response
MockConfidence == [full |-> 85, quick |-> 75, suggestions |-> 80]

\* AIService.getMockAnalysisResponse(conversationData, analysisType):
\* mockResponses[analysisType] || mockResponses.full
getMockAnalysisResponse(analysisType) ==
    LET key == IF analysisType \in DOMAIN MockConfidence THEN analysisType ELSE "full"
    IN  [response |-> key, confidence |-> MockConfidence[key]]

\* /angry|upset|hurt|sad|frustrated/.test(lowerCased)
isEmotional(t) ==
    \/ includes(t, <<"a","n","g","r","y">>)
    \/ includes(t, <<"u","p","s","e","t">>)
    \/ includes(t, <<"h","u","r","t">>)
    \/ includes(t, <<"s","a","d">>)
    \/ includes(t, <<"f","r","u","s","t","r","a","t","e","d">>)

\* AIService.getMockResponseSuggestions(targetMessage), as the ids of the
\* suggestions returned: resp_1 is empathy, resp_2 clarification, resp_3
\* solution, resp_4 acknowledgment
getMockResponseSuggestions(targetMessage) ==
    IF includes(toLowerCase(targetMessage), <<"s","o","r","r","y">>)
    THEN <<"resp_1", "resp_4">>
    ELSE IF includes(targetMessage, <<"?">>) THEN <<"resp_2", "resp_3">>
    ELSE IF isEmotional(toLowerCase(targetMessage)) THEN <<"resp_1", "resp_4">>
    ELSE <<"resp_1", "resp_2", "resp_3">>

\* The guard and the call of the mock analyzeConversation and
\* generateResponseSuggestions
MockCalled(method, flag, message, value) ==
    IF ~flag
    THEN [method |-> method, raised |-> TRUE, error |-> message, returned |-> None]
    ELSE [method |-> method, raised |-> FALSE, error |-> "", returned |-> Some(value)]

\* AIService.initialize(apiKey) of the mock service
InitializeMock ==
    /\ initialized' = TRUE
    /\ initializeCalled' = [initializeCalled EXCEPT !.mock = TRUE]
    /\ UNCHANGED <<openai, suggestionsCall, analysisCall, mockCall>>
    /\ UNCHANGED ocrVars
    /\ UNCHANGED confidenceVars
    /\ UNCHANGED storageVars
    /\ UNCHANGED appVars

\* AIService.analyzeConversation(conversationData, analysisType) of the mock
\* service
AnalyzeConversationMock ==
    /\ \E analysisType \in {"full", "quick", "suggestions", "other"} :
          mockCall' = Some(MockCalled("analyzeConversation", initialized,
                               "AI Service not initialized. Call initialize() with your API key first.",
                               getMockAnalysisResponse(analysisType))
                           @@ [afterInitialize |-> initializeCalled.mock])
    /\ UNCHANGED <<openai, suggestionsCall, analysisCall, initialized, initializeCalled>>
    /\ UNCHANGED ocrVars
    /\ UNCHANGED confidenceVars
    /\ UNCHANGED storageVars
    /\ UNCHANGED appVars

\* Target messages: an apology, a question, an emotional and a plain one
TargetMessages ==
    { <<"S","o","r","r","y","?">>, <<"w","h","y","?">>,
      <<"I","'","m"," ","u","p","s","e","t">>, <<"o","k">> }

\* AIService.generateResponseSuggestions(conversationContext, targetMessage)
\* of the mock service
GenerateResponseSuggestionsMock ==
    /\ \E targetMessage \in TargetMessages :
          mockCall' = Some(MockCalled("generateResponseSuggestions", initialized,
                               "AI Service not initialized",
                               getMockResponseSuggestions(targetMessage))
                           @@ [afterInitialize |-> initializeCalled.mock])
    /\ UNCHANGED <<openai, suggestionsCall, analysisCall, initialized, initializeCalled>>
    /\ UNCHANGED ocrVars
    /\ UNCHANGED confidenceVars
    /\ UNCHANGED storageVars
    /\ UNCHANGED appVars

\* A rejected call, a completion that is not JSON, and one of the asked form
ProviderOutcomes ==
    {[kind |-> "networkError", suggestions |-> <<>>],
     [kind |-> "notJson", suggestions |-> <<>>],
     [kind |-> "suggestionsArray",
      suggestions |-> <<[t |-> "object", type |-> "empathy", content |-> "I hear you",
                         rationale |-> "shows care", tone |-> "supportive"]>>]}

GenerateResponseSuggestionsOnce == GenerateResponseSuggestionsOn(ProviderOutcomes)
AnalyzeConversationOnce == AnalyzeConversationOn(ProviderOutcomes)

NextInitialization ==
    \/ Initialize
    \/ GenerateResponseSuggestionsOnce
    \/ AnalyzeConversationOnce
    \/ InitializeMock
    \/ AnalyzeConversationMock
    \/ GenerateResponseSuggestionsMock

SpecInitialization == InitAI /\ [][NextInitialization]_vars

----------------------------------------------------------------------------
(* Properties of the confidence aggregate.                                 *)

\* the fraction c lies in [0, 1]
InUnitInterval(c) == 0 <= c.num /\ c.num <= 100 * c.den

\* C15: in both service variants the aggregate is in [0, 1], and is 0 for
\* an empty list of blocks, whatever the blocks' confidences.
C15_ConfidenceInUnitInterval ==
    /\ confidenceMLKit # None =>
           /\ InUnitInterval(confidenceMLKit[1])
           /\ blocks = <<>> => confidenceMLKit[1].num = 0
    /\ confidenceMock # None =>
           /\ InUnitInterval(confidenceMock[1])
           /\ blocks = <<>> => confidenceMock[1].num = 0

\* every block has a confidence of its own, in [0, 1]
OwnConfidencesInRange ==
    \A i \in 1..Len(blocks) :
        /\ blocks[i].confidence # None
        /\ 0 <= blocks[i].confidence[1]
        /\ blocks[i].confidence[1] <= 100

\* sum of the blocks' own confidences
RECURSIVE SumOwn(_)
SumOwn(bs) ==
    IF bs = <<>> THEN 0
    ELSE SumOwn(SubSeq(bs, 1, Len(bs) - 1)) + bs[Len(bs)].confidence[1]

\* the fraction c equals the mean of the blocks' own confidences
IsMeanOfOwn(c) == c.num * Len(blocks) = SumOwn(blocks) * c.den

\* C16: for a non-empty list of blocks with confidences in [0, 1] the
\* aggregate is the arithmetic mean of the blocks' own confidences, blocks
\* of confidence 0 included.
C16_MeanOfOwnConfidences ==
    blocks # <<>> /\ OwnConfidencesInRange =>
        /\ confidenceMLKit # None => IsMeanOfOwn(confidenceMLKit[1])
        /\ confidenceMock # None => IsMeanOfOwn(confidenceMock[1])

----------------------------------------------------------------------------
(* Properties of the stored conversation list.                             *)

\* The list a read of @conversations gives now, and gave before the last call
StoredConversations == getAllConversations(storage[CONVERSATIONS_KEY], FALSE)
StoredBefore == getAllConversations(lastCall.before[CONVERSATIONS_KEY], FALSE)

\* conversation c is in the list cs
StoredIn(c, cs) == \E i \in 1..Len(cs) : cs[i] = c

\* C17: after any saves, deletes and clears the stored list has at most 50
\* entries and is ordered most recently saved first (ids are handed out in
\* save order); after a save the saved conversation is first, and every
\* entry the save dropped was saved before every entry it kept.
C17_RetentionCap ==
    /\ Len(StoredConversations) <= 50
    /\ \A i, j \in 1..Len(StoredConversations) :
           i < j => StoredConversations[i].id > StoredConversations[j].id
    /\ lastCall.op = "saveConversation" /\ ~lastCall.raised =>
           /\ StoredConversations # <<>>
           /\ StoredConversations[1] = NewConversation(nextId - 1)
           /\ \A i, j \in 1..Len(StoredBefore) :
                  /\ ~StoredIn(StoredBefore[i], StoredConversations)
                  /\ StoredIn(StoredBefore[j], StoredConversations)
                  => StoredBefore[i].id < StoredBefore[j].id

\* A save onto a full list has dropped its oldest entry and kept the rest
C17_Witness ==
    /\ lastCall.op = "saveConversation"
    /\ ~lastCall.raised
    /\ Len(StoredBefore) = 50
    /\ Len(StoredConversations) = 50
    /\ ~StoredIn(StoredBefore[50], StoredConversations)
    /\ StoredIn(StoredBefore[49], StoredConversations)

----------------------------------------------------------------------------
(* Properties of the storage paths.                                        *)

\* The write paths that report failure to the caller
RethrowingWritePaths == {"saveConversation", "saveConversationInstance", "saveUserProfile"}

\* C18: when the key-value write of saveConversation (either service) or
\* saveUserProfile fails, the call raises and the storage is as it was
\* before the call.
C18_WriteFailureRaises ==
    lastCall.op \in RethrowingWritePaths /\ lastCall.writeFailed =>
        /\ lastCall.raised
        /\ storage = lastCall.before

\* A profile save has failed over a profile stored earlier
C18_Witness ==
    /\ lastCall.op = "saveUserProfile"
    /\ lastCall.writeFailed
    /\ lastCall.before[USER_PROFILE] = StoredEarlier[USER_PROFILE]

\* The read paths, the key each reads and the value each falls back to
ReadPaths ==
    {"getAllConversations", "getConversationById", "getSettings",
     "getCachedAnalysisResult", "getUserProfile", "getConversations",
     "getCurrentConversation"}

KeyRead(op) ==
    CASE op \in {"getAllConversations", "getConversationById"} -> CONVERSATIONS_KEY
      [] op = "getSettings" -> SETTINGS_KEY
      [] op = "getCachedAnalysisResult" -> CACHE_KEY
      [] op = "getUserProfile" -> USER_PROFILE
      [] op = "getConversations" -> CONVERSATIONS
      [] op = "getCurrentConversation" -> CURRENT_CONVERSATION

FallsBackTo(op, returned) ==
    CASE op \in {"getAllConversations", "getConversations"} -> returned = Some(<<>>)
      [] op = "getSettings" ->
             returned = Some([apiKey |-> "", autoSaveConversations |-> TRUE,
                              analysisType |-> "full", notificationsEnabled |-> TRUE,
                              theme |-> "light", maxStoredConversations |-> 50])
      [] OTHER -> returned = Some(<<>>)

\* C19: a read path never raises; when the read fails or the stored string
\* is not valid JSON it returns the empty list, null or the default settings
\* and the storage is as it was before the call.
C19_ReadsFallBack ==
    lastCall.op \in ReadPaths =>
        /\ ~lastCall.raised
        /\ \/ lastCall.readFailed
           \/ lastCall.before[KeyRead(lastCall.op)] = Some(Corrupt)
           => /\ FallsBackTo(lastCall.op, lastCall.returned)
              /\ storage = lastCall.before

\* The profile has been read from a damaged string, and the read of a stored
\* profile has failed
C19_Witness ==
    /\ lastCall.op = "getUserProfile"
    /\ \/ lastCall.before[USER_PROFILE] = Some(Corrupt)
       \/ lastCall.readFailed /\ lastCall.before[USER_PROFILE] = StoredEarlier[USER_PROFILE]
    /\ lastCall.returned = Some(<<>>)

----------------------------------------------------------------------------
(* Properties of the response suggestions.                                 *)

\* The completion is JSON of the form the prompt asks for: an object whose
\* suggestions member is an array of objects with type, content, rationale
\* and tone
ExpectedShape(outcome) ==
    /\ outcome.kind = "suggestionsArray"
    /\ \A i \in 1..Len(outcome.suggestions) :
           /\ outcome.suggestions[i].t = "object"
           /\ outcome.suggestions[i].type # Undefined
           /\ outcome.suggestions[i].content # Undefined
           /\ outcome.suggestions[i].rationale # Undefined
           /\ outcome.suggestions[i].tone # Undefined

\* C20: a call on an initialized AIService never raises, and when the call
\* to the language model fails or the completion is not JSON of the expected
\* form it returns the three fallback suggestions fallback_1, fallback_2,
\* fallback_3.
C20_FallbackSuggestions ==
    suggestionsCall # None /\ suggestionsCall[1].initialized =>
        /\ ~suggestionsCall[1].raised
        /\ ~ExpectedShape(suggestionsCall[1].outcome) =>
               /\ Len(suggestionsCall[1].returned) = 3
               /\ \A i \in 1..3 :
                      suggestionsCall[1].returned[i].id = "fallback_" \o ToString(i)

----------------------------------------------------------------------------
(* Properties of the conversation analysis.                                *)

\* C21: a call of analyzeConversation on an initialized AIService returns a
\* response whatever the call to the language model does, and when that call
\* fails or the completion is not valid JSON the response is the fallback one
\* (confidence 0.5, the fallback suggestions).
C21_AnalysisFallsBack ==
    analysisCall # None /\ analysisCall[1].initialized =>
        /\ ~analysisCall[1].raised
        /\ analysisCall[1].returned # None
        /\ analysisCall[1].outcome.kind \in FailedCallKinds \cup NotJsonKinds =>
               /\ analysisCall[1].returned[1].confidence = 50
               /\ analysisCall[1].returned[1].suggestions = getFallbackSuggestions

----------------------------------------------------------------------------
(* Properties of the analysis cache.                                       *)

\* The entry under the cache key before the last call, when there was one
CachedBefore == lastCall.before[CACHE_KEY][1].value[1]
HadEntry == lastCall.before[CACHE_KEY] # None /\ lastCall.before[CACHE_KEY][1].kind = "json"

\* Milliseconds between the caching of that entry and the last call
AgeAtRead == clock - CachedBefore.cachedAt[2]

\* The entry as it was stored, less its cachedAt member
WithoutCachedAt(entry) ==
    [conversationData |-> entry.conversationData, suggestions |-> entry.suggestions]

\* C22: getCachedAnalysisResult returns null for an entry cached more than one
\* hour before the read, and removes it when the storage operations succeed;
\* for an entry at most one hour old whose read succeeds it returns the stored
\* result without cachedAt and leaves the storage as it was.
C22_CacheExpiresAfterOneHour ==
    lastCall.op = "getCachedAnalysisResult" /\ HadEntry =>
        /\ AgeAtRead > 3600000 =>
               /\ lastCall.returned = Some(Null)
               /\ ~lastCall.readFailed /\ ~lastCall.writeFailed => storage[CACHE_KEY] = None
        /\ AgeAtRead <= 3600000 /\ ~lastCall.readFailed =>
               /\ lastCall.returned = Some(Some(WithoutCachedAt(CachedBefore)))
               /\ storage = lastCall.before

\* An entry exactly one hour old has been returned
C22_Witness ==
    /\ lastCall.op = "getCachedAnalysisResult"
    /\ HadEntry
    /\ AgeAtRead = 3600000
    /\ ~lastCall.readFailed
    /\ lastCall.returned # Some(Null)

----------------------------------------------------------------------------
(* Properties of initialize.                                               *)

NotInitializedErrors ==
    {"AI Service not initialized",
     "AI Service not initialized. Call initialize() with your API key first."}

\* C23: in both services analyzeConversation and generateResponseSuggestions
\* raise a not-initialized error exactly when initialize had not been called
\* before the call, and the live ones then do not call the language model.
C23_NotInitializedIffNeverInitialized ==
    /\ suggestionsCall # None =>
           /\ suggestionsCall[1].error \in NotInitializedErrors
                  <=> ~suggestionsCall[1].afterInitialize
           /\ suggestionsCall[1].error \in NotInitializedErrors =>
                  suggestionsCall[1].raised /\ suggestionsCall[1].outcome.kind = "notCalled"
    /\ analysisCall # None =>
           /\ analysisCall[1].error \in NotInitializedErrors
                  <=> ~analysisCall[1].afterInitialize
           /\ analysisCall[1].error \in NotInitializedErrors =>
                  analysisCall[1].raised /\ analysisCall[1].outcome.kind = "notCalled"
    /\ mockCall # None =>
           /\ mockCall[1].error \in NotInitializedErrors <=> ~mockCall[1].afterInitialize
           /\ mockCall[1].error \in NotInitializedErrors => mockCall[1].raised

\* A call before initialize has raised the error, and calls of both services
\* after initialize have not, one of them with a failed call to the model
C23_Witness ==
    /\ suggestionsCall # None
    /\ ~suggestionsCall[1].afterInitialize
    /\ suggestionsCall[1].error = "AI Service not initialized"
    /\ analysisCall # None
    /\ analysisCall[1].afterInitialize
    /\ analysisCall[1].error = "Failed to analyze conversation"
    /\ mockCall # None
    /\ mockCall[1].afterInitialize
    /\ ~mockCall[1].raised

----------------------------------------------------------------------------
(* validateConversationText of the mock OCRService.  A result is a record  *)
(* with isValid and message (Undefined when the result has no message).    *)

\* Pieces of the texts handed to validateConversationText: abcdefg and a space, a
\* space, I, we, home, my_, a colon, a question mark, said, Asked!
ValidationVocabulary ==
    { <<"a","b","c","d","e","f","g"," ">>,
      <<" ">>,
      <<"I">>,
      <<"w","e">>,
      <<"h","o","m","e">>,
      <<"m","y","_">>,
      <<":">>,
      <<"?">>,
      <<"s","a","i","d">>,
      <<"A","s","k","e","d","!">> }

ValidationTexts == TextsOver(ValidationVocabulary)

\* /[c]/.test(s) for a one-character class
TestChar(c, s) == \E i \in 1..Len(s) : s[i] = c

\* /\b(w1|w2|...)\b/i.test(s): one of the words occurs in s, in any case,
\* with a word boundary before and after it
TestWords(words, s) ==
    \E w \in words : \E i \in 1..(Len(s) - Len(w) + 1) :
        /\ toLowerCase(SubSeq(s, i, i + Len(w) - 1)) = toLowerCase(w)
        /\ (i = 1 \/ ~IsWordChar(s[i - 1]))
        /\ (i + Len(w) > Len(s) \/ ~IsWordChar(s[i + Len(w)]))

PersonalPronouns == { <<"y","o","u">>, <<"y","o","u","r">>, <<"m","e">>, <<"m","y">>, <<"I">>, <<"w","e">> }

CommunicationVerbs == { <<"s","a","i","d">>, <<"s","a","y","s">>, <<"t","o","l","d">>, <<"a","s","k","e","d">> }

\* conversationIndicators.some(pattern => pattern.test(extractedText))
hasConversationIndicators(extractedText) ==
    \/ TestChar(":", extractedText)
    \/ TestChar("?", extractedText)
    \/ TestWords(PersonalPronouns, extractedText)
    \/ TestWords(CommunicationVerbs, extractedText)

\* The length test made on the text as it is, not on the trimmed text
validateConversationTextUntrimmedMutant(extractedText) ==
    IF Len(extractedText) = 0 \/ Len(trim(extractedText)) = 0
    THEN [isValid |-> FALSE,
          message |-> "No text could be extracted from the image. Please ensure the image contains readable text."]
    ELSE IF Len(extractedText) < 10
    THEN [isValid |-> FALSE,
          message |-> "The extracted text is too short. Please provide an image with more conversation content."]
    ELSE IF ~hasConversationIndicators(extractedText)
    THEN [isValid |-> FALSE,
          message |-> "The extracted text doesn't appear to be a conversation. Please provide a screenshot of a conversation or chat."]
    ELSE [isValid |-> TRUE, message |-> Undefined]

validateConversationText(extractedText) ==
    IF Len(extractedText) = 0 \/ Len(trim(extractedText)) = 0
    THEN [isValid |-> FALSE,
          message |-> "No text could be extracted from the image. Please ensure the image contains readable text."]
    ELSE IF Len(trim(extractedText)) < 10
    THEN [isValid |-> FALSE,
          message |-> "The extracted text is too short. Please provide an image with more conversation content."]
    ELSE IF ~hasConversationIndicators(extractedText)
    THEN [isValid |-> FALSE,
          message |-> "The extracted text doesn't appear to be a conversation. Please provide a screenshot of a conversation or chat."]
    ELSE [isValid |-> TRUE, message |-> Undefined]

InitTextValidation ==
    /\ text \in ValidationTexts
    /\ conversationData = None
    /\ structuredLines = None
    /\ processedText = None
    /\ blocks = <<>>
    /\ confidenceMLKit = None
    /\ confidenceMock = None
    /\ StorageIdle
    /\ AIIdle
    /\ AppIdle

ValidateConversationText ==
    /\ textValidation = None
    /\ textValidation' = Some(validateConversationText(text))
    /\ UNCHANGED <<image, imageValidation>>
    /\ UNCHANGED <<ocrVars, confidenceVars, storageVars, aiVars, raceVars, chatVars>>

NextTextValidation == ValidateConversationText

SpecTextValidation == InitTextValidation /\ [][NextTextValidation]_vars

----------------------------------------------------------------------------
(* Properties of validateConversationText.                                 *)

\* The words of s: its maximal runs of word characters, in lower case
WordsOf(s) ==
    {toLowerCase(SubSeq(s, i, j)) : <<i, j>> \in
        {p \in (1..Len(s)) \X (1..Len(s)) :
            /\ p[1] <= p[2]
            /\ \A k \in p[1]..p[2] : IsWordChar(s[k])
            /\ (p[1] = 1 \/ ~IsWordChar(s[p[1] - 1]))
            /\ (p[2] = Len(s) \/ ~IsWordChar(s[p[2] + 1]))}}

\* s has a colon, a question mark, a personal pronoun or a communication verb
HasIndicator(s) ==
    \/ \E i \in 1..Len(s) : s[i] \in {":", "?"}
    \/ WordsOf(s) \cap {toLowerCase(w) : w \in PersonalPronouns \cup CommunicationVerbs} # {}

FirstFailingCheckMessage(s) ==
    IF Len(s) = 0
    THEN "No text could be extracted from the image. Please ensure the image contains readable text."
    ELSE IF Len(s) < 10
    THEN "The extracted text is too short. Please provide an image with more conversation content."
    ELSE "The extracted text doesn't appear to be a conversation. Please provide a screenshot of a conversation or chat."

\* C24: validateConversationText returns isValid = true exactly when the
\* trimmed text has at least 10 characters and a conversation indicator;
\* otherwise isValid = false with the message of the first failing check in
\* the order empty, too short, no indicator.
C24_ValidTextIffLongEnoughWithIndicator ==
    textValidation # None =>
        LET result == textValidation[1]
            trimmed == trim(text)
        IN  /\ result.isValid <=> Len(trimmed) >= 10 /\ HasIndicator(trimmed)
            /\ result.isValid => result.message = Undefined
            /\ ~result.isValid => result.message = FirstFailingCheckMessage(trimmed)

\* A text of exactly ten characters after trimming, whose only indicator is
\* a pronoun, has been found valid
C24_Witness ==
    /\ textValidation # None
    /\ textValidation[1].isValid
    /\ Len(text) > 10
    /\ Len(trim(text)) = 10
    /\ ~TestChar(":", text) /\ ~TestChar("?", text)
    /\ ~TestWords(CommunicationVerbs, text)

----------------------------------------------------------------------------
(* validateImageForOCR of the two ImagePickerServices.  fileSize, width    *)
(* and height are the whole numbers the image picker reports (0 where it   *)
(* reports none); the quotient width / height is kept as a fraction, which *)
(* compares with 5 and 0.2 as the floating-point quotient does for sizes   *)
(* of this magnitude.                                                      *)

FileSizes == {0, 125000, 10 * 1024 * 1024, 10 * 1024 * 1024 + 1}

Dimensions == {0, 199, 200, 400, 600, 1000, 1001}

\* imageResult.width / imageResult.height, for a height that is not 0
Quotient(a, b) == [num |-> a, den |-> b]

\* q > n and q < 0.2 for a quotient q with a positive denominator
QuotientGreater(q, n) == q.num > n * q.den
QuotientLessThanFifth(q) == 10 * q.num < 2 * q.den

\* The size test made with >= in place of >
validateImageForOCRInclusiveMutant(imageResult) ==
    IF imageResult.fileSize >= 10 * 1024 * 1024
    THEN [isValid |-> FALSE,
          message |-> "Image file is too large. Please select an image smaller than 10MB."]
    ELSE IF imageResult.width < 200 \/ imageResult.height < 200
    THEN [isValid |-> FALSE,
          message |-> "Image is too small. Please select a larger image for better text recognition."]
    ELSE LET aspectRatio == Quotient(imageResult.width, imageResult.height)
         IN  IF QuotientGreater(aspectRatio, 5) \/ QuotientLessThanFifth(aspectRatio)
             THEN [isValid |-> FALSE,
                   message |-> "Image aspect ratio is unusual. Please select a more standard screenshot format."]
             ELSE [isValid |-> TRUE, message |-> Undefined]

\* ImagePickerService.validateImageForOCR of the live service
validateImageForOCR(imageResult) ==
    IF imageResult.fileSize > 10 * 1024 * 1024
    THEN [isValid |-> FALSE,
          message |-> "Image file is too large. Please select an image smaller than 10MB."]
    ELSE IF imageResult.width < 200 \/ imageResult.height < 200
    THEN [isValid |-> FALSE,
          message |-> "Image is too small. Please select a larger image for better text recognition."]
    ELSE LET aspectRatio == Quotient(imageResult.width, imageResult.height)
         IN  IF QuotientGreater(aspectRatio, 5) \/ QuotientLessThanFifth(aspectRatio)
             THEN [isValid |-> FALSE,
                   message |-> "Image aspect ratio is unusual. Please select a more standard screenshot format."]
             ELSE [isValid |-> TRUE, message |-> Undefined]

\* ImagePickerService.validateImageForOCR of the mock service
validateImageForOCRMock(imageResult) ==
    IF imageResult.fileSize > 10 * 1024 * 1024
    THEN [isValid |-> FALSE,
          message |-> "Image file is too large. Please select an image smaller than 10MB."]
    ELSE IF imageResult.width < 200 \/ imageResult.height < 200
    THEN [isValid |-> FALSE,
          message |-> "Image is too small. Please select a larger image for better text recognition."]
    ELSE LET aspectRatio == Quotient(imageResult.width, imageResult.height)
         IN  IF QuotientGreater(aspectRatio, 5) \/ QuotientLessThanFifth(aspectRatio)
             THEN [isValid |-> FALSE,
                   message |-> "Image aspect ratio is unusual. Please select a more standard screenshot format."]
             ELSE [isValid |-> TRUE, message |-> Undefined]

InitImageValidation ==
    /\ text = <<>>
    /\ conversationData = None
    /\ structuredLines = None
    /\ processedText = None
    /\ blocks = <<>>
    /\ confidenceMLKit = None
    /\ confidenceMock = None
    /\ StorageIdle
    /\ AIIdle
    /\ textValidation = None
    /\ image \in [fileSize : FileSizes, width : Dimensions, height : Dimensions]
    /\ imageValidation = [live |-> None, mock |-> None]
    /\ RaceIdle
    /\ ChatIdle

ValidateImageForOCR ==
    /\ imageValidation.live = None
    /\ imageValidation' = [imageValidation EXCEPT !.live = Some(validateImageForOCR(image))]
    /\ UNCHANGED <<textValidation, image>>
    /\ UNCHANGED <<ocrVars, confidenceVars, storageVars, aiVars, raceVars, chatVars>>

ValidateImageForOCRMock ==
    /\ imageValidation.mock = None
    /\ imageValidation' = [imageValidation EXCEPT !.mock = Some(validateImageForOCRMock(image))]
    /\ UNCHANGED <<textValidation, image>>
    /\ UNCHANGED <<ocrVars, confidenceVars, storageVars, aiVars, raceVars, chatVars>>

NextImageValidation ==
    \/ ValidateImageForOCR
    \/ ValidateImageForOCRMock

SpecImageValidation == InitImageValidation /\ [][NextImageValidation]_vars

----------------------------------------------------------------------------
(* Properties of validateImageForOCR.                                      *)

\* 0.2 <= width / height <= 5, for a positive height
StandardAspect(i) == i.height <= 5 * i.width /\ i.width <= 5 * i.height

SuitableForOCR(i) ==
    /\ i.fileSize <= 10485760
    /\ i.width >= 200
    /\ i.height >= 200
    /\ StandardAspect(i)

FirstFailingImageCheckMessage(i) ==
    IF i.fileSize > 10485760
    THEN "Image file is too large. Please select an image smaller than 10MB."
    ELSE IF i.width < 200 \/ i.height < 200
    THEN "Image is too small. Please select a larger image for better text recognition."
    ELSE "Image aspect ratio is unusual. Please select a more standard screenshot format."

\* C25: validateImageForOCR returns isValid = true exactly when fileSize is
\* at most 10 MB, width and height are at least 200 and the aspect ratio
\* lies between 0.2 and 5 inclusive; otherwise isValid = false with the
\* message of the first failing check in the order size, dimensions, aspect
\* ratio; and the live and the mock service give the same result.
C25_ValidImageIffWithinLimits ==
    /\ \A service \in {"live", "mock"} :
           imageValidation[service] # None =>
               LET result == imageValidation[service][1]
               IN  /\ result.isValid <=> SuitableForOCR(image)
                   /\ result.isValid => result.message = Undefined
                   /\ ~result.isValid => result.message = FirstFailingImageCheckMessage(image)
    /\ imageValidation.live # None /\ imageValidation.mock # None =>
           imageValidation.live = imageValidation.mock

\* Both services have found valid an image of exactly 10 MB, of the minimal
\* width, whose aspect ratio is exactly 0.2
C25_Witness ==
    /\ image = [fileSize |-> 10485760, width |-> 200, height |-> 1000]
    /\ imageValidation.live # None
    /\ imageValidation.mock # None
    /\ imageValidation.live[1].isValid
    /\ imageValidation.mock[1].isValid

----------------------------------------------------------------------------
(* Properties of a save onto the stored conversation list.                 *)

\* The entry at position i of a list is dropped by the cap when one more
\* entry is put before it
EvictedByCap(i) == i >= 50

\* C27: when the static saveConversation returns without error, every
\* conversation stored before the call is still stored after it, except the
\* entries the cap of 50 evicts, also when the read of the existing list
\* fails during the save.
C27_SaveKeepsStoredConversations ==
    lastCall.op = "saveConversation" /\ ~lastCall.raised =>
        \A i \in 1..Len(StoredBefore) :
            EvictedByCap(i) \/ StoredIn(StoredBefore[i], StoredConversations)

----------------------------------------------------------------------------
(* Two saveConversation calls in flight at once, on either StorageService. *)
(* A call suspends at await AsyncStorage.getItem and at await              *)
(* AsyncStorage.setItem; what it does between two suspensions is one step. *)

Savers == {1, 2}

\* The conversation the p-th call saves: the ids of the two differ, and
\* differ from the id of the conversation stored earlier
SavedBy(service, p) ==
    IF service = "static" THEN NewConversation(p + 1) ELSE Conversation(p + 1, p + 1)

\* The key a service keeps its conversation list under
ListKey(service) == IF service = "static" THEN CONVERSATIONS_KEY ELSE CONVERSATIONS

\* One conversation saved earlier, as each service writes it
OneStoredEarlier(service) ==
    IF service = "static" THEN stringifyConversations(Saved(1))
    ELSE Json(<<ConversationJson(Conversation(1, 1))>>)

\* The list a save reads: getAllConversations, or getConversations
ReadForSave(service, store, readFails) ==
    IF service = "static" THEN getAllConversations(store[CONVERSATIONS_KEY], readFails)
    ELSE getConversations(store, readFails).returned[1]

\* conversations.findIndex, then replace or push
replaceOrPush(conversations, conversation) ==
    LET existing == {i \in 1..Len(conversations) : conversations[i].id = conversation.id}
    IN  IF existing # {}
        THEN [conversations EXCEPT ![SetMin(existing)] = conversation]
        ELSE Append(conversations, conversation)

\* What a save does with the list it has read: the outcome of its setItem
WriteForSave(service, store, existing, conversation, writeFails) ==
    IF service = "static"
    THEN IF writeFails THEN Throw(store)
         ELSE Done([store EXCEPT ![CONVERSATIONS_KEY] =
                       Some(stringifyConversations(
                                limitedConversations(<<conversation>> \o existing)))])
    ELSE saveConversations(store, replaceOrPush(existing, conversation), writeFails)

InitConcurrentSaves ==
    /\ text = <<>>
    /\ conversationData = None
    /\ structuredLines = None
    /\ processedText = None
    /\ blocks = <<>>
    /\ confidenceMLKit = None
    /\ confidenceMock = None
    /\ saveService \in {"static", "instance"}
    /\ storage \in {[[k \in Keys |-> None] EXCEPT ![ListKey(saveService)] = item] :
                       item \in {None, Some(Corrupt), Some(OneStoredEarlier(saveService))}}
    /\ nextId = 1
    /\ calls = 0
    /\ lastCall = NoCall
    /\ clock = 0
    /\ AIIdle
    /\ ValidationIdle
    /\ ChatIdle
    /\ savers = [p \in Savers |-> [pc |-> "called", existing |-> None, readFailed |-> FALSE]]

\* The call of saver p up to the completion of its getItem; readFailed
\* records whether the getItem rejected
SaveConversationRead(p) ==
    /\ savers[p].pc = "called"
    /\ \E readFails \in BOOLEAN :
          savers' = [savers EXCEPT ![p] =
                        [pc |-> "read",
                         existing |-> Some(ReadForSave(saveService, storage, readFails)),
                         readFailed |-> readFails]]
    /\ UNCHANGED saveService
    /\ UNCHANGED storageVars
    /\ UNCHANGED <<ocrVars, confidenceVars, aiVars, validationVars, chatVars>>

\* The rest of the call of saver p: the new list and its setItem
SaveConversationWrite(p) ==
    /\ savers[p].pc = "read"
    /\ \E writeFails \in BOOLEAN :
          LET outcome == WriteForSave(saveService, storage, savers[p].existing[1],
                                      SavedBy(saveService, p), writeFails)
          IN  /\ storage' = outcome.storage
              /\ savers' = [savers EXCEPT ![p] =
                               [savers[p] EXCEPT
                                   !.pc = IF outcome.raised THEN "raised" ELSE "returned",
                                   !.existing = None]]
    /\ UNCHANGED saveService
    /\ UNCHANGED <<nextId, calls, lastCall, clock>>
    /\ UNCHANGED <<ocrVars, confidenceVars, aiVars, validationVars, chatVars>>

NextConcurrentSaves ==
    \E p \in Savers :
        \/ SaveConversationRead(p)
        \/ SaveConversationWrite(p)

SpecConcurrentSaves == InitConcurrentSaves /\ [][NextConcurrentSaves]_vars

----------------------------------------------------------------------------
(* Properties of concurrent saves.                                         *)

\* The conversations a read of the service's list gives now
StoredByService == ReadForSave(saveService, storage, FALSE)

\* C26: when two saveConversation calls for conversations of different ids
\* run concurrently and both return without error, neither having had its
\* read of the list rejected, both conversations are in the stored list
\* afterwards, on either StorageService.
C26_ConcurrentSavesBothStored ==
    (\A p \in Savers : savers[p].pc = "returned" /\ ~savers[p].readFailed) =>
        \A p \in Savers : StoredIn(SavedBy(saveService, p), StoredByService)

----------------------------------------------------------------------------
(* parseMessagesFromText on lines whose sender part is blank.              *)

\* Pieces of such texts: a space, a colon, hi, Bob, 12:30, a line break
SenderVocabulary ==
    { <<" ">>,
      <<":">>,
      <<"h","i">>,
      <<"B","o","b">>,
      <<"1","2",":","3","0">>,
      <<"\n">> }

InitSenders ==
    /\ text \in TextsOver(SenderVocabulary)
    /\ conversationData = None
    /\ structuredLines = None
    /\ processedText = None
    /\ blocks = <<>>
    /\ confidenceMLKit = None
    /\ confidenceMock = None
    /\ StorageIdle
    /\ AIIdle
    /\ AppIdle

NextSenders == ProcessConversationFromOCR

SpecSenders == InitSenders /\ [][NextSenders]_vars

----------------------------------------------------------------------------
(* Properties of the emitted messages.                                     *)

\* C30: for every raw text, every message parseMessagesFromText emits has a
\* non-empty sender and a non-empty trimmed content, and every entry of
\* participants is a non-empty string.
C30_SendersAndContentsNonEmpty ==
    conversationData # None =>
        LET data == conversationData[1]
        IN  /\ \A i \in 1..Len(data.messages) :
                   /\ Len(data.messages[i].sender) > 0
                   /\ Len(trim(data.messages[i].content)) > 0
            /\ \A i \in 1..Len(data.participants) : Len(data.participants[i]) > 0

----------------------------------------------------------------------------
(* The ChatScreen.  Each handler (initializeChat, sendMessage,             *)
(* addImageMessage) is a call that suspends at its awaits; what it does    *)
(* between two suspensions is one step.  A handler is a closure of the     *)
(* render it was created in: it reads the conversation and the userProfile *)
(* of that render, kept in its record, and not the state at the time it    *)
(* resumes.  A message is kept as its id, type, inputMethod and timestamp. *)
(* The two awaits of generateAIResponse before the reply (the summary and  *)
(* the response) touch no state and are one step.  A saveConversation is   *)
(* one step, taken when it completes.  The route carries no imageUri.      *)

\* Number of presses of the send and image buttons in one behaviour.
MaxTaps == 2

Handlers == {"initializeChat", "sendMessage", "addImageMessage"}

\* A call that has not been made, and one whose closure holds conv and profile
NoHandler == [pc |-> "idle", conv |-> None, profile |-> None, reply |-> None]
Handler(pc, conv, profile) == [pc |-> pc, conv |-> conv, profile |-> profile, reply |-> None]

Pending(h) == handlers[h].pc \notin {"idle", "done"}

\* The conversation handler h is saving, and whether it is saving one
Saving(h) == handlers[h].pc \in {"saveConversation", "saveReply"}
SavedConversation(h) ==
    IF handlers[h].pc = "saveReply" THEN handlers[h].reply[1] ELSE handlers[h].conv[1]

\* AsyncStorage serves the saves in the order they were made: the save of h
\* completes when no save made earlier is pending (updatedAt is the time a
\* conversation was made at, which is when its save is made)
SaveTurn(h) ==
    \A g \in Handlers :
        Saving(g) => SavedConversation(g).updatedAt[2] >= SavedConversation(h).updatedAt[2]

\* A Message created at Date.now() = n
ChatMessage(n, type, inputMethod) ==
    [id |-> n, type |-> type, inputMethod |-> inputMethod, timestamp |-> <<"Date", n>>]

\* The Conversation initializeChat creates at Date.now() = n
NewChatConversation(n, messages) ==
    [id |-> n, createdAt |-> <<"Date", n>>, updatedAt |-> <<"Date", n>>,
     messages |-> messages]

\* { ...conv, messages: [...conv.messages, message], updatedAt: new Date() }
WithMessage(conv, message, n) ==
    [conv EXCEPT !.messages = Append(@, message), !.updatedAt = <<"Date", n>>]

\* conversations.find(c => c.id === conversationId)
findConversation(conversations, conversationId) ==
    LET found == {i \in 1..Len(conversations) : conversations[i].id = conversationId}
    IN  IF found = {} THEN None ELSE Some(conversations[SetMin(found)])

\* What ImagePickerService.pickImage resolves to: null, or an image
PickedImages ==
    {None,
     Some([fileSize |-> 125000, width |-> 400, height |-> 600]),
     Some([fileSize |-> 0, width |-> 0, height |-> 0])}

\* What the text recognition extracts: nothing, or "A: hi there"
ExtractedTexts == {<<>>, <<"A",":"," ","h","i"," ","t","h","e","r","e">>}

\* The conversation the route names, as stored before the screen opens
StoredChat == NewChatConversation(1, <<>>)

Routes ==
    {[conversationId |-> None, initialText |-> None],
     [conversationId |-> None, initialText |-> Some("text")],
     [conversationId |-> Some(1), initialText |-> None]}

InitChat ==
    /\ text = <<>>
    /\ conversationData = None
    /\ structuredLines = None
    /\ processedText = None
    /\ blocks = <<>>
    /\ confidenceMLKit = None
    /\ confidenceMock = None
    /\ storage \in {[[k \in Keys |-> None] EXCEPT
                        ![USER_PROFILE] = profile,
                        ![CONVERSATIONS] = Some(Json(<<ConversationJson(StoredChat)>>))] :
                       profile \in {None, Some(stringifyProfile(NewProfile(1, TRUE)))}}
    /\ nextId = 1
    /\ calls = 0
    /\ lastCall = NoCall
    /\ clock = 0
    /\ AIIdle
    /\ ValidationIdle
    /\ RaceIdle
    /\ route \in Routes
    /\ conversationState = None
    /\ userProfile = None
    /\ isTyping = FALSE
    /\ isLoading = FALSE
    /\ handlers = [h \in Handlers |->
                      IF h = "initializeChat" THEN Handler("getUserProfile", None, None)
                      ELSE NoHandler]
    /\ dateNow = 2
    /\ taps = 0
    /\ added = {}
    /\ chatFailed = FALSE

\* initializeChat up to the completion of getConversations, or of the first
\* await after the new conversation is made
InitializeChatProfile ==
    /\ handlers["initializeChat"].pc = "getUserProfile"
    /\ \E readFails \in BOOLEAN :
          /\ userProfile' = getUserProfile(storage, readFails).returned[1]
          /\ chatFailed' = (chatFailed \/ readFails)
    /\ IF route.conversationId # None
       THEN /\ handlers' = [handlers EXCEPT !["initializeChat"].pc = "getConversations"]
            /\ UNCHANGED <<conversationState, isTyping, dateNow>>
       ELSE LET newConversation ==
                    NewChatConversation(dateNow,
                        IF route.initialText # None
                        THEN <<ChatMessage(dateNow + 1, "user", "text")>> ELSE <<>>)
            IN  /\ dateNow' = dateNow + 2
                /\ IF route.initialText # None /\ handlers["initializeChat"].profile # None
                   THEN \* generateAIResponse goes on to ask for a reply
                        /\ isTyping' = TRUE
                        /\ handlers' = [handlers EXCEPT !["initializeChat"] =
                                           Handler("generateResponse", Some(newConversation),
                                                   handlers["initializeChat"].profile)]
                        /\ UNCHANGED conversationState
                   ELSE \* no initial text, or generateAIResponse returns at once
                        /\ conversationState' = Some(newConversation)
                        /\ handlers' = [handlers EXCEPT !["initializeChat"] =
                                           Handler("saveConversation", Some(newConversation),
                                                   handlers["initializeChat"].profile)]
                        /\ UNCHANGED isTyping
    /\ UNCHANGED <<route, isLoading, taps, added>>
    /\ UNCHANGED storageVars
    /\ UNCHANGED <<ocrVars, confidenceVars, aiVars, validationVars, raceVars>>

\* initializeChat of an existing conversation, from the completion of
\* getConversations
InitializeChatLoad ==
    /\ handlers["initializeChat"].pc = "getConversations"
    /\ \E readFails \in BOOLEAN :
          LET conversations == getConversations(storage, readFails).returned[1]
              existingConversation == findConversation(conversations, route.conversationId[1])
          IN  /\ conversationState' = IF existingConversation # None
                                      THEN existingConversation ELSE conversationState
              /\ chatFailed' = (chatFailed \/ readFails)
    /\ handlers' = [handlers EXCEPT !["initializeChat"].pc = "done"]
    /\ UNCHANGED <<route, userProfile, isTyping, isLoading, dateNow, taps, added>>
    /\ UNCHANGED storageVars
    /\ UNCHANGED <<ocrVars, confidenceVars, aiVars, validationVars, raceVars>>

\* initializeChat from the completion of its saveConversation
InitializeChatSaved ==
    /\ handlers["initializeChat"].pc = "saveConversation"
    /\ SaveTurn("initializeChat")
    /\ \E readFails, writeFails \in BOOLEAN :
          LET outcome == saveConversationInstance(storage, handlers["initializeChat"].conv[1],
                                                  readFails, writeFails)
          IN  /\ storage' = outcome.storage
              /\ chatFailed' = (chatFailed \/ readFails \/ writeFails)
    /\ handlers' = [handlers EXCEPT !["initializeChat"].pc = "done"]
    /\ UNCHANGED <<route, conversationState, userProfile, isTyping, isLoading, dateNow,
                   taps, added>>
    /\ UNCHANGED <<nextId, calls, lastCall, clock>>
    /\ UNCHANGED <<ocrVars, confidenceVars, aiVars, validationVars, raceVars>>

\* A press of the send button with a non-blank input, up to the first await:
\* the button is disabled while isLoading or isTyping, and the screen shows
\* no button while conversation is null or the image picker is open
SendMessage ==
    /\ taps < MaxTaps
    /\ conversationState # None
    /\ ~isLoading /\ ~isTyping
    /\ ~Pending("sendMessage")
    /\ handlers["addImageMessage"].pc # "pickImage"
    /\ LET userMessage == ChatMessage(dateNow, "user", "text")
           updatedConversation == WithMessage(conversationState[1], userMessage, dateNow)
       IN  /\ conversationState' = Some(updatedConversation)
           /\ handlers' = [handlers EXCEPT !["sendMessage"] =
                              Handler("saveConversation", Some(updatedConversation), userProfile)]
           /\ added' = added \cup {userMessage.id}
    /\ dateNow' = dateNow + 1
    /\ taps' = taps + 1
    /\ UNCHANGED <<route, userProfile, isTyping, isLoading, chatFailed>>
    /\ UNCHANGED storageVars
    /\ UNCHANGED <<ocrVars, confidenceVars, aiVars, validationVars, raceVars>>

\* sendMessage from the completion of its saveConversation, into
\* generateAIResponse; a rejected save ends the handler
SendMessageSaved ==
    /\ handlers["sendMessage"].pc = "saveConversation"
    /\ SaveTurn("sendMessage")
    /\ \E readFails, writeFails \in BOOLEAN :
          LET outcome == saveConversationInstance(storage, handlers["sendMessage"].conv[1],
                                                  readFails, writeFails)
              replies == ~outcome.raised /\ handlers["sendMessage"].profile # None
          IN  /\ storage' = outcome.storage
              /\ chatFailed' = (chatFailed \/ readFails \/ writeFails)
              /\ isTyping' = IF replies THEN TRUE ELSE isTyping
              /\ handlers' = [handlers EXCEPT !["sendMessage"].pc =
                                 IF replies THEN "generateResponse" ELSE "done"]
    /\ UNCHANGED <<route, conversationState, userProfile, isLoading, dateNow, taps, added>>
    /\ UNCHANGED <<nextId, calls, lastCall, clock>>
    /\ UNCHANGED <<ocrVars, confidenceVars, aiVars, validationVars, raceVars>>

\* A press of the image button, up to await pickImage: the button is
\* disabled while isLoading
AddImageMessage ==
    /\ taps < MaxTaps
    /\ conversationState # None
    /\ ~isLoading
    /\ ~Pending("addImageMessage")
    /\ handlers' = [handlers EXCEPT !["addImageMessage"] =
                       Handler("pickImage", conversationState, userProfile)]
    /\ taps' = taps + 1
    /\ UNCHANGED <<route, conversationState, userProfile, isTyping, isLoading, dateNow,
                   added, chatFailed>>
    /\ UNCHANGED storageVars
    /\ UNCHANGED <<ocrVars, confidenceVars, aiVars, validationVars, raceVars>>

\* addImageMessage from the completion of pickImage
AddImageMessagePicked ==
    /\ handlers["addImageMessage"].pc = "pickImage"
    /\ \E imageResult \in PickedImages :
          LET goesOn == imageResult # None /\ validateImageForOCR(imageResult[1]).isValid
          IN  /\ isLoading' = goesOn
              /\ handlers' = [handlers EXCEPT !["addImageMessage"].pc =
                                 IF goesOn THEN "extractConversationFromImage" ELSE "done"]
    /\ UNCHANGED <<route, conversationState, userProfile, isTyping, dateNow, taps, added,
                   chatFailed>>
    /\ UNCHANGED storageVars
    /\ UNCHANGED <<ocrVars, confidenceVars, aiVars, validationVars, raceVars>>

\* addImageMessage from the completion of extractConversationFromImage,
\* which may reject
AddImageMessageExtracted ==
    /\ handlers["addImageMessage"].pc = "extractConversationFromImage"
    /\ \/ \E extractedText \in ExtractedTexts :
             IF validateConversationText(extractedText).isValid
             THEN LET imageMessage == ChatMessage(dateNow, "user", "image")
                      updatedConversation ==
                          WithMessage(handlers["addImageMessage"].conv[1], imageMessage, dateNow)
                  IN  /\ conversationState' = Some(updatedConversation)
                      /\ handlers' = [handlers EXCEPT !["addImageMessage"] =
                                         Handler("saveConversation", Some(updatedConversation),
                                                 handlers["addImageMessage"].profile)]
                      /\ added' = added \cup {imageMessage.id}
                      /\ dateNow' = dateNow + 1
                      /\ UNCHANGED <<isLoading, chatFailed>>
             ELSE /\ isLoading' = FALSE
                  /\ handlers' = [handlers EXCEPT !["addImageMessage"].pc = "done"]
                  /\ UNCHANGED <<conversationState, added, dateNow, chatFailed>>
       \/ /\ isLoading' = FALSE
          /\ chatFailed' = TRUE
          /\ handlers' = [handlers EXCEPT !["addImageMessage"].pc = "done"]
          /\ UNCHANGED <<conversationState, added, dateNow>>
    /\ UNCHANGED <<route, userProfile, isTyping, taps>>
    /\ UNCHANGED storageVars
    /\ UNCHANGED <<ocrVars, confidenceVars, aiVars, validationVars, raceVars>>

\* addImageMessage from the completion of its saveConversation, into
\* generateAIResponse
AddImageMessageSaved ==
    /\ handlers["addImageMessage"].pc = "saveConversation"
    /\ SaveTurn("addImageMessage")
    /\ \E readFails, writeFails \in BOOLEAN :
          LET outcome == saveConversationInstance(storage, handlers["addImageMessage"].conv[1],
                                                  readFails, writeFails)
              replies == ~outcome.raised /\ handlers["addImageMessage"].profile # None
          IN  /\ storage' = outcome.storage
              /\ chatFailed' = (chatFailed \/ readFails \/ writeFails)
              /\ isTyping' = IF replies THEN TRUE ELSE isTyping
              /\ isLoading' = IF replies THEN isLoading ELSE FALSE
              /\ handlers' = [handlers EXCEPT !["addImageMessage"].pc =
                                 IF replies THEN "generateResponse" ELSE "done"]
    /\ UNCHANGED <<route, conversationState, userProfile, dateNow, taps, added>>
    /\ UNCHANGED <<nextId, calls, lastCall, clock>>
    /\ UNCHANGED <<ocrVars, confidenceVars, aiVars, validationVars, raceVars>>

\* generateAIResponse, called by handler h, from the completion of
\* AIService.generateResponse, which may reject
GenerateAIResponseReplied(h) ==
    /\ handlers[h].pc = "generateResponse"
    /\ \/ LET aiMessage == ChatMessage(dateNow, "ai", "text")
              updatedConversation == WithMessage(handlers[h].conv[1], aiMessage, dateNow)
          IN  /\ conversationState' = Some(updatedConversation)
              /\ handlers' = [handlers EXCEPT ![h].pc = "saveReply",
                                              ![h].reply = Some(updatedConversation)]
              /\ dateNow' = dateNow + 1
              /\ UNCHANGED <<isTyping, isLoading, chatFailed>>
       \/ /\ chatFailed' = TRUE
          /\ isTyping' = FALSE
          /\ IF h = "initializeChat"
             THEN /\ conversationState' = handlers[h].conv
                  /\ handlers' = [handlers EXCEPT ![h].pc = "saveConversation"]
                  /\ UNCHANGED isLoading
             ELSE /\ isLoading' = IF h = "addImageMessage" THEN FALSE ELSE isLoading
                  /\ handlers' = [handlers EXCEPT ![h].pc = "done"]
                  /\ UNCHANGED conversationState
          /\ UNCHANGED dateNow
    /\ UNCHANGED <<route, userProfile, taps, added>>
    /\ UNCHANGED storageVars
    /\ UNCHANGED <<ocrVars, confidenceVars, aiVars, validationVars, raceVars>>

\* generateAIResponse, called by handler h, from the completion of its
\* saveConversation to the end of h, or to the next await of initializeChat
GenerateAIResponseSaved(h) ==
    /\ handlers[h].pc = "saveReply"
    /\ SaveTurn(h)
    /\ \E readFails, writeFails \in BOOLEAN :
          LET outcome == saveConversationInstance(storage, handlers[h].reply[1],
                                                  readFails, writeFails)
          IN  /\ storage' = outcome.storage
              /\ chatFailed' = (chatFailed \/ readFails \/ writeFails)
    /\ isTyping' = FALSE
    /\ IF h = "initializeChat"
       THEN /\ conversationState' = handlers[h].conv
            /\ handlers' = [handlers EXCEPT ![h].pc = "saveConversation"]
            /\ UNCHANGED isLoading
       ELSE /\ isLoading' = IF h = "addImageMessage" THEN FALSE ELSE isLoading
            /\ handlers' = [handlers EXCEPT ![h].pc = "done"]
            /\ UNCHANGED conversationState
    /\ UNCHANGED <<route, userProfile, dateNow, taps, added>>
    /\ UNCHANGED <<nextId, calls, lastCall, clock>>
    /\ UNCHANGED <<ocrVars, confidenceVars, aiVars, validationVars, raceVars>>

\* The steps a pending handler takes when the call it awaits completes
ChatContinues ==
    \/ InitializeChatProfile
    \/ InitializeChatLoad
    \/ InitializeChatSaved
    \/ SendMessageSaved
    \/ AddImageMessagePicked
    \/ AddImageMessageExtracted
    \/ AddImageMessageSaved
    \/ \E h \in Handlers : GenerateAIResponseReplied(h)
    \/ \E h \in Handlers : GenerateAIResponseSaved(h)

NextChat ==
    \/ SendMessage
    \/ AddImageMessage
    \/ ChatContinues

SpecChat == InitChat /\ [][NextChat]_vars

\* Every call a handler awaits completes
SpecChatFair == SpecChat /\ WF_vars(ChatContinues)

----------------------------------------------------------------------------
(* Properties of the ChatScreen.                                           *)

\* The ids of the messages of a conversation
MessageIds(conv) == {conv.messages[i].id : i \in 1..Len(conv.messages)}

\* The conversation of the screen as storageService.getConversations gives it
StoredChatConversation ==
    IF conversationState = None THEN None
    ELSE findConversation(getConversations(storage, FALSE).returned[1],
                          conversationState[1].id)

\* C28: once every pending handler has completed, no call having failed,
\* the conversation in the component state and the stored one contain every
\* text message sendMessage added and every image message addImageMessage
\* added.
C28_NoAddedMessageLost ==
    (\A h \in Handlers : ~Pending(h)) /\ ~chatFailed /\ added # {} =>
        /\ added \subseteq MessageIds(conversationState[1])
        /\ StoredChatConversation # None
        /\ added \subseteq MessageIds(StoredChatConversation[1])

\* The conversation c starts with the initial user message and an AI reply
InitialThenReply(c) ==
    /\ Len(c.messages) >= 2
    /\ c.messages[1].type = "user" /\ c.messages[1].inputMethod = "text"
    /\ c.messages[2].type = "ai"

\* C29: when the ChatScreen is opened without conversationId and with
\* initialText, initializeChat eventually leaves the conversation, in the
\* component state and in storage, with the initial user message followed
\* by an AI reply, unless a storage or AI call has failed.
C29_InitialTextGetsReply ==
    (route.conversationId = None /\ route.initialText # None)
        ~> \/ chatFailed
           \/ /\ conversationState # None
              /\ InitialThenReply(conversationState[1])
              /\ StoredChatConversation # None
              /\ InitialThenReply(StoredChatConversation[1])

====
